---- MODULE Spec2Model ----
(***************************************************************************)
(* Model of federationbot (src/federationbot/__init__.py).                 *)
(*                                                                         *)
(* Part 1: the dispatch runs of the "whole room" commands (_delegations,   *)
(* _versions, _server_keys, _server_keys_from_notary, find_event_command): *)
(* a command coroutine fills an asyncio.Queue with server names, creates a *)
(* pool of worker tasks, awaits queue.join(), cancels the workers, gathers *)
(* them and renders one row per server.                                    *)
(*                                                                         *)
(* Part 2: get_hosts_in_room_ordered, a pure function of the state events. *)
(*                                                                         *)
(* Part 3: room_walk_command: a fetcher task pages through the room, first *)
(* forward (discovery), then backward (backfill), while the command        *)
(* coroutine takes snapshots of the pages fetched so far.                  *)
(*                                                                         *)
(* Part 4: the resolution of a server name to an endpoint, which           *)
(* _delegation_worker calls through get_server_version(diagnostics=True).  *)
(* The resolver is part of federationbot.federation; it is modelled from   *)
(* the design document and from the text of the summary command.           *)
(***************************************************************************)
EXTENDS Integers, Sequences, FiniteSets, TLC

\* MAX_NUMBER_OF_SERVERS_TO_ATTEMPT is 400 in the source (line 68) and
\* MAX_NUMBER_OF_SERVERS_FOR_CONCURRENT_REQUEST is 100 (line 73).  Both are
\* scaled down here; the ceiling stays above the pool size, as in the source
\* the pool size stays below the ceiling, so that a run with more targets than
\* workers is accepted.
MAX_NUMBER_OF_SERVERS_TO_ATTEMPT == 3
MAX_NUMBER_OF_SERVERS_FOR_CONCURRENT_REQUEST == 2

\* Server names.  The order of the integers stands for the lexical order of
\* the names (sorted() in the render code).  One more server than the ceiling
\* exists, so that a room above the ceiling can be submitted.
Servers == 1..(MAX_NUMBER_OF_SERVERS_TO_ATTEMPT + 1)
\* Identities available for worker tasks: one more than the pool size, so that
\* the number of tasks a run creates is something the model decides, not its
\* state space.  A task that is never created stays "none".
Workers == 1..(MAX_NUMBER_OF_SERVERS_FOR_CONCURRENT_REQUEST + 1)

LimitedCommands == {"delegation", "version", "server_keys", "notary_server_keys"}
Commands == LimitedCommands \cup {"find_event"}

\* Messages an unexpected exception of a probe may carry (str(e)).
ExceptionMessages == {"boom", "bang"}

None == "None"

\* A worker that holds no server name; a target whose probe has not ended.
NoServer == 0
NoOutcome == <<"none", None>>

VARIABLES
  cmd,            \* which command runs
  display_raw,    \* the display_raw parameter of _server_keys / _server_keys_from_notary
  host_list,      \* the submitted targets, in the order they are put on the queue
  pc,             \* position of the command coroutine
  queue,          \* asyncio.Queue: the items not yet taken
  unfinished,     \* asyncio.Queue._unfinished_tasks
  wstate,         \* per worker task: "none", "get", "probe", "dead", "ended"
  witem,          \* per worker task: worker_server_name / worker_host
  wcancel,        \* per worker task: task.cancel() was called and not yet delivered
  results,        \* server_to_*_data / host_to_event_status_map
  report,         \* list_of_result_data: the rows rendered, in order
  takes,          \* history: per target, how many times it was taken off the queue (capped)
  writes,         \* history: per target, how many times its key was written (capped)
  outcome         \* history: per target, how its probe ended

dvars == <<cmd, display_raw, host_list, pc, queue, unfinished, wstate, witem,
           wcancel, results, report, takes, writes, outcome>>

VARIABLES
  state_events,   \* get_hosts_in_room_ordered: the events of state_events_dict, in its order
  hosts_ordered,  \* get_hosts_in_room_ordered: the list returned by the last call
  previous_hosts, \* the list returned by the call before the last one
  calls,          \* number of calls made on state_events
  state_listing   \* state_command: list_of_buffer_lines, the rows of the state listing

hvars == <<state_events, hosts_ordered, previous_hosts, calls, state_listing>>

VARIABLES
  wpc,              \* position of room_walk_command
  phase,            \* direction of the phase the walk is in: "f" discovery, "b" backfill
  pages,            \* per direction: how many pages the server holds for the room
  fstate,           \* per direction, the fetcher task: "none", "get", "sleep", "fetch", "ended"
  fcancel,          \* per direction: task.cancel() was called and not yet delivered
  retry_token,      \* per fetcher: retry_token
  back_off_time,    \* per fetcher: back_off_time, in tenths of a second
  next_token,       \* per fetcher: next_token
  fetch_queue,      \* discovery_fetch_queue / backwalk_fetch_queue: (backoff, token) items
  unfinished_tasks, \* per queue: asyncio.Queue._unfinished_tasks
  response_list,    \* response_list: the pages fetched and not yet taken by a snapshot
  finish,           \* finish
  iterations,       \* discovery_iterations / backwalk_iterations
  task_control,     \* self.task_control
  fetched,          \* history: per direction, the number of page fetches that returned
  handled,          \* history: per direction, the pages the snapshot loop processed, in order
  signal,           \* history: the last control reaction a user sent
  last_accepted     \* history: per event, the key of the last reaction that a user
                    \* sent on it with a command key while it was a session

VARIABLES
  discovery_collection_of_event_ids,  \* discovery_collection_of_event_ids
  discovery_total_events_received,    \* discovery_total_events_received, as reported
  backwalk_collection_of_event_ids,   \* backwalk_collection_of_event_ids
  backwalk_count_of_new_event_ids,    \* backwalk_count_of_new_event_ids, as reported
  returned_ids      \* history: per direction, the event ids of the pages fetched

\* The event-id bookkeeping of the walk.
idvars == <<discovery_collection_of_event_ids, discovery_total_events_received,
            backwalk_collection_of_event_ids, backwalk_count_of_new_event_ids,
            returned_ids>>

wvars == <<wpc, phase, pages, fstate, fcancel, retry_token, back_off_time, next_token,
           fetch_queue, unfinished_tasks, response_list, finish, iterations,
           task_control, fetched, handled, signal, last_accepted, idvars>>

VARIABLES
  server_name,      \* the name handed to the resolver
  well_known,       \* what the fetch of the name's well-known document gives
  srv,              \* per SRV kind, what the query for the looked-up name gives
  rstate,           \* position of the resolution: "idle", "start", "resolved", "reported"
  endpoint,         \* the ResolvedEndpoint
  trace,            \* the DiagnosticTrace: (step, outcome) in the order recorded
  delegation_entry  \* what _delegation_worker has written for the name

rvars == <<server_name, well_known, srv, rstate, endpoint, trace, delegation_entry>>

VARIABLES
  command,                  \* the command whose preamble runs
  server_to_check,          \* the argument: "server", "room_id", "alias", or "" once cancelled
  alias_lookup,             \* what the lookup of the alias gives: "room", "error", "no_room_id"
  room_to_check,            \* "unset", a room, or None
  ppc,                      \* position of the preamble
  joined_members_requests,  \* calls of client.get_joined_members
  list_of_servers_to_check  \* the targets collected for the workers

pvars == <<command, server_to_check, alias_lookup, room_to_check, ppc,
           joined_members_requests, list_of_servers_to_check>>

VARIABLES
  list_of_all_lines,      \* the lines handed to combine_lines_to_fit_event
  header_line,            \* the header handed to it
  list_of_combined_lines, \* what it returns
  cpc                     \* "idle", "call", "returned"

cvars == <<list_of_all_lines, header_line, list_of_combined_lines, cpc>>

vars == <<dvars, hvars, wvars, rvars, pvars, cvars>>

\* What a dispatch run leaves alone.
notDispatch == <<hvars, wvars, rvars, pvars, cvars>>

Range(s) == {s[i] : i \in 1..Len(s)}

Min(S) == CHOOSE x \in S : \A y \in S : x <= y

\* sorted(...) of a set of server names
RECURSIVE Sorted(_)
Sorted(S) == IF S = {} THEN <<>> ELSE <<Min(S)>> \o Sorted(S \ {Min(S)})

Cap2(n) == IF n >= 2 THEN 2 ELSE n + 1

Reverse(s) == [i \in 1..Len(s) |-> s[Len(s) + 1 - i]]

\* The state after the command has collected its targets.
\* list_of_servers_to_check of the four limited commands is a set; its
\* iteration order is fixed for a given set and the workers never compare
\* names, so the set is enumerated in ascending order.  host_list of find_event
\* is a list built without repetition (get_hosts_in_room_ordered, or the
\* fallback loop) whose order is unrelated to the names: every set of hosts is
\* taken in ascending and in descending order of name.
TargetLists(c) ==
  IF c = "find_event"
    THEN {Sorted(S) : S \in SUBSET Servers} \cup {Reverse(Sorted(S)) : S \in SUBSET Servers}
    ELSE {Sorted(S) : S \in SUBSET Servers}

DispatchInit ==
  /\ cmd \in Commands
  /\ display_raw \in IF cmd \in {"server_keys", "notary_server_keys"} THEN BOOLEAN ELSE {FALSE}
  /\ host_list \in TargetLists(cmd)
  /\ pc = "check"
  /\ queue = <<>>
  /\ unfinished = 0
  /\ wstate = [w \in Workers |-> "none"]
  /\ witem = [w \in Workers |-> NoServer]
  /\ wcancel = [w \in Workers |-> FALSE]
  /\ results = <<>>
  /\ report = <<>>
  /\ takes = [t \in Servers |-> 0]
  /\ writes = [t \in Servers |-> 0]
  /\ outcome = [t \in Servers |-> NoOutcome]

\* No call of get_hosts_in_room_ordered is modelled in a dispatch run.
HostsIdle ==
  /\ state_events = <<>>
  /\ hosts_ordered = <<>>
  /\ previous_hosts = <<>>
  /\ calls = 0
  /\ state_listing = <<>>

\* PaginationDirection.FORWARD and PaginationDirection.BACKWARD
Directions == {"f", "b"}

\* The most pages the server holds for one direction of a room.
MaxPages == 2

\* from_token=None: the walk starts at the edge of the room.  The token a page
\* returns in "end" is the number of pages read so far in that direction.
NoToken == 0

\* The locals of room_walk_command before it has run a step, for a room whose
\* page counts are given.
WalkLocals(position, room) ==
  /\ wpc = position
  /\ phase = "f"
  /\ pages = room
  /\ fstate = [d \in Directions |-> "none"]
  /\ fcancel = [d \in Directions |-> FALSE]
  /\ retry_token = [d \in Directions |-> FALSE]
  /\ back_off_time = [d \in Directions |-> 0]
  /\ next_token = [d \in Directions |-> NoToken]
  /\ fetch_queue = [d \in Directions |-> <<>>]
  /\ unfinished_tasks = [d \in Directions |-> 0]
  /\ response_list = <<>>
  /\ finish = FALSE
  /\ iterations = [d \in Directions |-> 0]
  /\ fetched = [d \in Directions |-> 0]
  /\ handled = [d \in Directions |-> <<>>]
  /\ signal = "none"
  /\ last_accepted = <<>>
  /\ discovery_collection_of_event_ids = {}
  /\ discovery_total_events_received = 0
  /\ backwalk_collection_of_event_ids = {}
  /\ backwalk_count_of_new_event_ids = 0
  /\ returned_ids = [d \in Directions |-> {}]

\* The state of the room walk before room_walk_command has run a step:
\* start() has set task_control to the empty dictionary.
WalkFresh(position, room) ==
  /\ WalkLocals(position, room)
  /\ task_control = <<>>

\* No room walk is modelled in a dispatch run or a host ordering call.
WalkIdle == WalkFresh("idle", [d \in Directions |-> 1])

\* A name without port; no endpoint.
NoPort == 0
NoName == [scheme |-> FALSE, host |-> "", port |-> NoPort]
NoEndpoint == [host |-> "", port |-> NoPort, tls |-> "", via |-> "none"]
NoEntry == [type |-> "none", status_reason |-> "", error_reason |-> <<>>]

\* No call of combine_lines_to_fit_event is modelled.
CombineIdle ==
  /\ list_of_all_lines = <<>>
  /\ header_line = <<>>
  /\ list_of_combined_lines = <<>>
  /\ cpc = "idle"

\* No preamble of a command is modelled.
PreambleIdle ==
  /\ command = "none"
  /\ server_to_check = ""
  /\ alias_lookup = "room"
  /\ room_to_check = "unset"
  /\ ppc = "idle"
  /\ joined_members_requests = 0
  /\ list_of_servers_to_check = {}

\* No resolution is modelled.
ResolverIdle ==
  /\ server_name = NoName
  /\ well_known = [status |-> "none", host |-> "", port |-> NoPort]
  /\ srv = [k \in {"srv-modern", "srv-deprecated"} |-> "none"]
  /\ rstate = "idle"
  /\ endpoint = NoEndpoint
  /\ trace = <<>>
  /\ delegation_entry = NoEntry


(***************************************************************************)
(* What a probe can do, and what the worker records for it.                *)
(***************************************************************************)

\* Outcomes of asyncio.wait_for(get_server_version / get_server_keys /
\* get_server_keys_from_notary, timeout=10.0): it returns the handler's
\* response, raises asyncio.TimeoutError, or raises another Exception.
LimitedOutcomes ==
  {<<"return", "FederationResponse">>, <<"timeout", None>>} \cup
  {<<"raise", m>> : m \in ExceptionMessages}

\* Outcomes of get_event_from_server(...) followed by .get(event_id): an
\* Event, an EventError, no value for the event id, or an exception.
FindEventOutcomes ==
  {<<"return", "Event">>, <<"return", "EventError">>, <<"return", None>>} \cup
  {<<"raise", m>> : m \in ExceptionMessages}

Entry(type, status_reason, error_reason) ==
  [type |-> type, status_reason |-> status_reason, error_reason |-> error_reason]

\* except asyncio.TimeoutError: FederationErrorResponse(status_code=0, ...)
TimeoutEntry(c) ==
  Entry("FederationErrorResponse",
        IF c = "version" THEN "Timed out waiting for response" ELSE "Request timed out",
        <<"Timeout err">>)

\* except Exception as e: FederationErrorResponse(status_reason="Plugin Error", ...)
PluginErrorEntry(c, m) ==
  Entry("FederationErrorResponse", "Plugin Error",
        <<IF c = "notary_server_keys" THEN "Plugin Error: " ELSE "Plugin err: ", m>>)

\* try: map[name] = await asyncio.wait_for(...)
ResponseEntry(v) == Entry(v, "", <<>>)

\* Variant: "except Exception" placed before "except asyncio.TimeoutError", so
\* that a timeout is recorded as a plugin error.
WorkerRecord_ExceptionFirst(c, o) ==
  CASE o[1] = "return"  -> ResponseEntry(o[2])
    [] o[1] = "timeout" -> PluginErrorEntry(c, "")
    [] o[1] = "raise"   -> PluginErrorEntry(c, o[2])

\* The try / except asyncio.TimeoutError / except Exception of the four
\* workers that use wait_for.
WorkerRecord(c, o) ==
  CASE o[1] = "return"  -> ResponseEntry(o[2])
    [] o[1] = "timeout" -> TimeoutEntry(c)
    [] o[1] = "raise"   -> PluginErrorEntry(c, o[2])

Put(map, k, v) == (k :> v) @@ map

(***************************************************************************)
(* The command coroutine.                                                  *)
(***************************************************************************)

\* The guards before dispatch: "number_of_servers > 1 and display_raw" and
\* "number_of_servers > MAX_NUMBER_OF_SERVERS_TO_ATTEMPT".  find_event_command
\* has neither.
Rejects(c, raw, n) ==
  /\ c \in LimitedCommands
  /\ \/ (c \in {"server_keys", "notary_server_keys"} /\ raw /\ n > 1)
     \/ n > MAX_NUMBER_OF_SERVERS_TO_ATTEMPT

CheckCeiling ==
  /\ pc = "check"
  /\ pc' = IF Rejects(cmd, display_raw, Len(host_list)) THEN "rejected" ELSE "dispatch"
  /\ UNCHANGED <<cmd, display_raw, host_list, queue, unfinished, wstate, witem,
                 wcancel, results, report, takes, writes, outcome>>
  /\ UNCHANGED notDispatch

\* Variant: one task too many is created.
CreatedTasks_OneMore == 1..(MAX_NUMBER_OF_SERVERS_FOR_CONCURRENT_REQUEST + 1)

\* for i in range(MAX_NUMBER_OF_SERVERS_FOR_CONCURRENT_REQUEST): create_task(...)
CreatedTasks == 1..MAX_NUMBER_OF_SERVERS_FOR_CONCURRENT_REQUEST

\* queue.put for every target, then create_task for every worker of the pool;
\* the command then waits in queue.join().
StartDispatch ==
  /\ pc = "dispatch"
  /\ queue' = host_list
  /\ unfinished' = Len(host_list)
  /\ wstate' = [w \in Workers |-> IF w \in CreatedTasks THEN "get" ELSE "none"]
  /\ pc' = "join"
  /\ UNCHANGED <<cmd, display_raw, host_list, witem, wcancel, results, report,
                 takes, writes, outcome>>
  /\ UNCHANGED notDispatch

\* Variant: the join is not awaited.
JoinReady_NotAwaited == TRUE

\* "await queue.join()" returns when the count of unfinished items is zero.
JoinReady == unfinished = 0

\* Variant: after queue.join() the command renders at once, without
\* cancelling and gathering its tasks.
JoinReturns_NoCancel ==
  /\ pc = "join"
  /\ JoinReady
  /\ pc' = "render"
  /\ UNCHANGED <<cmd, display_raw, host_list, queue, unfinished, wstate, witem,
                 wcancel, results, report, takes, writes, outcome>>
  /\ UNCHANGED notDispatch

\* queue.join() returns once every item put has been marked task_done; the
\* command then calls task.cancel() on every task (no effect on a task that
\* has already ended) and waits in asyncio.gather.
JoinReturns ==
  /\ pc = "join"
  /\ JoinReady
  /\ wcancel' = [w \in Workers |-> wstate[w] \notin {"none", "dead", "ended"}]
  /\ pc' = "gather"
  /\ UNCHANGED <<cmd, display_raw, host_list, queue, unfinished, wstate, witem,
                 results, report, takes, writes, outcome>>
  /\ UNCHANGED notDispatch

\* Variant: the gather is not awaited.
GatherReady_NotAwaited == TRUE

\* asyncio.gather(*tasks, return_exceptions=True) returns when every task is done.
GatherReady == \A w \in Workers : wstate[w] \in {"none", "dead", "ended"}

GatherReturns ==
  /\ pc = "gather"
  /\ GatherReady
  /\ pc' = "render"
  /\ UNCHANGED <<cmd, display_raw, host_list, queue, unfinished, wstate, witem,
                 wcancel, results, report, takes, writes, outcome>>
  /\ UNCHANGED notDispatch

\* The command task is cancelled from outside while it waits in queue.join():
\* CancelledError is raised at the await and leaves the coroutine; no handler
\* and no finally clause surrounds the await.
CommandCancelled ==
  /\ pc = "join"
  /\ pc' = "cancelled"
  /\ UNCHANGED <<cmd, display_raw, host_list, queue, unfinished, wstate, witem,
                 wcancel, results, report, takes, writes, outcome>>
  /\ UNCHANGED notDispatch

(***************************************************************************)
(* The worker tasks.                                                       *)
(***************************************************************************)

\* Variant: the item is read but left on the queue.
WorkerGet_Peek(w) ==
  /\ wstate[w] = "get"
  /\ ~wcancel[w]
  /\ queue # <<>>
  /\ LET t == Head(queue) IN
       /\ witem' = [witem EXCEPT ![w] = t]
       /\ takes' = [takes EXCEPT ![t] = Cap2(@)]
  /\ wstate' = [wstate EXCEPT ![w] = "probe"]
  /\ UNCHANGED <<cmd, display_raw, host_list, pc, queue, unfinished, wcancel, results,
                 report, writes, outcome>>
  /\ UNCHANGED notDispatch

\* worker_server_name = await queue.get()
WorkerGet(w) ==
  /\ wstate[w] = "get"
  /\ ~wcancel[w]
  /\ queue # <<>>
  /\ LET t == Head(queue) IN
       /\ witem' = [witem EXCEPT ![w] = t]
       /\ takes' = [takes EXCEPT ![t] = Cap2(@)]
  /\ queue' = Tail(queue)
  /\ wstate' = [wstate EXCEPT ![w] = "probe"]
  /\ UNCHANGED <<cmd, display_raw, host_list, pc, unfinished, wcancel, results,
                 report, writes, outcome>>
  /\ UNCHANGED notDispatch

\* Variant: no "except Exception" clause: an exception of the probe runs the
\* finally clause and ends the task, nothing is recorded.
WorkerProbe_ExceptionNotCaught(w) ==
  /\ cmd \in LimitedCommands
  /\ wstate[w] = "probe"
  /\ \E o \in LimitedOutcomes :
       /\ outcome' = [outcome EXCEPT ![witem[w]] = o]
       /\ IF o[1] = "raise"
            THEN /\ wstate' = [wstate EXCEPT ![w] = "dead"]
                 /\ UNCHANGED <<results, writes, witem>>
            ELSE /\ results' = Put(results, witem[w], WorkerRecord(cmd, o))
                 /\ writes' = [writes EXCEPT ![witem[w]] = Cap2(@)]
                 /\ wstate' = [wstate EXCEPT ![w] = "get"]
                 /\ witem' = [witem EXCEPT ![w] = NoServer]
  /\ unfinished' = unfinished - 1
  /\ UNCHANGED <<cmd, display_raw, host_list, pc, queue, wcancel, report, takes>>
  /\ UNCHANGED notDispatch

\* The body of _delegation_worker, _version_worker, _server_keys_worker and
\* _server_keys_from_notary_worker after the get: record the outcome, then
\* (finally) queue.task_done(), then loop to the next get.
WorkerProbe(w) ==
  /\ cmd \in LimitedCommands
  /\ wstate[w] = "probe"
  /\ \E o \in LimitedOutcomes :
       /\ results' = Put(results, witem[w], WorkerRecord(cmd, o))
       /\ outcome' = [outcome EXCEPT ![witem[w]] = o]
  /\ writes' = [writes EXCEPT ![witem[w]] = Cap2(@)]
  /\ unfinished' = unfinished - 1
  /\ wstate' = [wstate EXCEPT ![w] = "get"]
  /\ witem' = [witem EXCEPT ![w] = NoServer]
  /\ UNCHANGED <<cmd, display_raw, host_list, pc, queue, wcancel, report, takes>>
  /\ UNCHANGED notDispatch

\* The body of _event_finding_worker after the get: no wait_for, no try.  A
\* returned value is stored and the item marked done; an exception ends the
\* task before the store and before task_done().
EventFindingProbe(w) ==
  /\ cmd = "find_event"
  /\ wstate[w] = "probe"
  /\ \E o \in FindEventOutcomes :
       /\ outcome' = [outcome EXCEPT ![witem[w]] = o]
       /\ IF o[1] = "return"
            THEN /\ results' = Put(results, witem[w], ResponseEntry(o[2]))
                 /\ writes' = [writes EXCEPT ![witem[w]] = Cap2(@)]
                                /\ unfinished' = unfinished - 1
                 /\ wstate' = [wstate EXCEPT ![w] = "get"]
                 /\ witem' = [witem EXCEPT ![w] = NoServer]
            ELSE /\ wstate' = [wstate EXCEPT ![w] = "dead"]
                 /\ UNCHANGED <<results, writes, unfinished, witem>>
  /\ UNCHANGED <<cmd, display_raw, host_list, pc, queue, wcancel, report, takes>>
  /\ UNCHANGED notDispatch

\* CancelledError is delivered to a worker waiting in queue.get(): the await
\* is outside every try, the task ends.
WorkerCancelled(w) ==
  /\ wcancel[w]
  /\ wstate[w] = "get"
  /\ wstate' = [wstate EXCEPT ![w] = "ended"]
  /\ wcancel' = [wcancel EXCEPT ![w] = FALSE]
  /\ UNCHANGED <<cmd, display_raw, host_list, pc, queue, unfinished, witem,
                 results, report, takes, writes, outcome>>
  /\ UNCHANGED notDispatch


(***************************************************************************)
(* Rendering: one row per server, in the order the command lists them.     *)
(***************************************************************************)

Row(server, status, detail) == [server |-> server, status |-> status, detail |-> detail]

\* A row of the version / delegation / server_keys reports for an entry of the map.
ResponseRow(t, e) ==
  IF e.type = "FederationErrorResponse"
    THEN Row(t, "Error", e.status_reason)
    ELSE Row(t, "OK", "")

\* find_event_command: "for host in host_list: result = map.get(host)".
EventRow(h, map) ==
  IF h \in DOMAIN map /\ map[h].type # None
    THEN IF map[h].type = "EventError"
           THEN Row(h, "Fail", "EventError")
           ELSE Row(h, "OK", "")
    ELSE Row(h, "Fail", "Plugin error(Host not contacted)")

\* Variant: the names are walked from the last to the first.
RenderOrder_Descending(c, hosts, map) ==
  CASE c = "find_event" -> hosts
    [] c = "version"    -> Reverse(Sorted(Range(hosts)))
    [] OTHER            -> Reverse(Sorted(DOMAIN map))

\* The servers the render loop walks, in order: host_list (find_event),
\* sorted(list_of_servers_to_check) (_versions), the sorted keys of the map
\* (_delegations, _server_keys, _server_keys_from_notary).
RenderOrder(c, hosts, map) ==
  CASE c = "find_event" -> hosts
    [] c = "version"    -> Sorted(Range(hosts))
    [] OTHER            -> Sorted(DOMAIN map)

\* _versions asserts isinstance(server_data, FederationVersionResponse) for a
\* name whose entry is not an error response: a name without entry raises
\* AssertionError and the command ends without a report.
RenderAborts(c, hosts, map) ==
  c = "version" /\ \E t \in Range(hosts) : t \notin DOMAIN map

RenderRows(c, hosts, map) ==
  LET order == RenderOrder(c, hosts, map) IN
    [i \in 1..Len(order) |->
       IF c = "find_event" THEN EventRow(order[i], map)
                           ELSE ResponseRow(order[i], map[order[i]])]

Render ==
  /\ pc = "render"
  /\ IF RenderAborts(cmd, host_list, results)
       THEN pc' = "aborted" /\ report' = <<>>
       ELSE pc' = "done" /\ report' = RenderRows(cmd, host_list, results)
  /\ UNCHANGED <<cmd, display_raw, host_list, queue, unfinished, wstate, witem,
                 wcancel, results, takes, writes, outcome>>
  /\ UNCHANGED notDispatch

(***************************************************************************)
(* The render loops taken on their own, as functions of the target list    *)
(* and of a result map that need not hold every target: the case their     *)
(* "map.get(name, None)" provides for.                                     *)
(***************************************************************************)

\* The entries a worker of command c can have written.
WrittenEntries(c) ==
  IF c = "find_event"
    THEN {ResponseEntry("Event"), ResponseEntry("EventError"), ResponseEntry(None)}
    ELSE {ResponseEntry("FederationResponse"), TimeoutEntry(c)}

\* The result maps over some of the targets.
PartialMaps(c, hosts) ==
  UNION {[S -> WrittenEntries(c)] : S \in SUBSET Range(hosts)}

\* The command stands before its render loop; its workers are gone.
RenderInit ==
  /\ cmd \in Commands
  /\ display_raw = FALSE
  /\ host_list \in TargetLists(cmd)
  /\ pc = "render"
  /\ queue = <<>>
  /\ unfinished = 0
  /\ wstate = [w \in Workers |-> IF w \in CreatedTasks THEN "ended" ELSE "none"]
  /\ witem = [w \in Workers |-> NoServer]
  /\ wcancel = [w \in Workers |-> FALSE]
  /\ results \in PartialMaps(cmd, host_list)
  /\ report = <<>>
  /\ takes = [t \in Servers |-> 0]
  /\ writes = [t \in Servers |-> 0]
  /\ outcome = [t \in Servers |-> NoOutcome]
  /\ HostsIdle
  /\ WalkIdle
  /\ ResolverIdle
  /\ PreambleIdle
  /\ CombineIdle

RenderNext == Render

RenderSpec == RenderInit /\ [][RenderNext]_vars

(***************************************************************************)
(* The dispatch specification.                                             *)
(***************************************************************************)

Init == DispatchInit /\ HostsIdle /\ WalkIdle /\ ResolverIdle /\ PreambleIdle /\ CombineIdle

Next ==
  \/ CheckCeiling
  \/ StartDispatch
  \/ JoinReturns
  \/ GatherReturns
  \/ CommandCancelled
  \/ Render
  \/ \E w \in Workers : WorkerGet(w)
  \/ \E w \in Workers : WorkerProbe(w)
  \/ \E w \in Workers : EventFindingProbe(w)
  \/ \E w \in Workers : WorkerCancelled(w)

Spec == Init /\ [][Next]_vars

\* Scheduling: the event loop runs every task that is ready, so every step of
\* the command and of the workers that is enabled is eventually taken;
\* wait_for ends every probe of the limited commands within its timeout, and
\* the fetch of find_event is taken to end as well.  Nothing obliges the
\* environment to cancel the command.
Fairness ==
  /\ WF_vars(CheckCeiling)
  /\ WF_vars(StartDispatch)
  /\ WF_vars(JoinReturns)
  /\ WF_vars(GatherReturns)
  /\ WF_vars(Render)
  /\ \A w \in Workers : WF_vars(WorkerGet(w))
  /\ \A w \in Workers : WF_vars(WorkerProbe(w))
  /\ \A w \in Workers : WF_vars(EventFindingProbe(w))
  /\ \A w \in Workers : WF_vars(WorkerCancelled(w))

FairSpec == Spec /\ Fairness


(***************************************************************************)
(* get_hosts_in_room_ordered.                                              *)
(***************************************************************************)

\* Longest list of state events submitted.
MaxEvents == 3

Hosts == {"a.org", "b.org"}
Localparts == {"u1", "u2"}
\* Depths of join events; a leave event or an event of another type is
\* dropped before its depth is read and has the first depth only.
Depths == {5, 7, 9}

StateEvent(type, state_key, membership, depth) ==
  [type |-> type, state_key |-> state_key, membership |-> membership, depth |-> depth]

\* The events get_events_from_server can return for the state ids.
StateEvents ==
  {StateEvent("m.room.member", <<l, h>>, "join", d) :
     l \in Localparts, h \in Hosts, d \in Depths} \cup
  {StateEvent("m.room.member", <<l, h>>, "leave", 5) : l \in Localparts, h \in Hosts} \cup
  {StateEvent("m.room.name", <<"", "">>, None, 5)}

\* A room state holds one event per (type, state_key).
StateLists ==
  UNION {{s \in [1..n -> StateEvents] :
            \A i, j \in 1..n :
              i # j => <<s[i].type, s[i].state_key>> # <<s[j].type, s[j].state_key>>} :
         n \in 0..MaxEvents}

\* No command is modelled while get_hosts_in_room_ordered is examined.
DispatchIdle ==
  /\ cmd = "find_event"
  /\ display_raw = FALSE
  /\ host_list = <<>>
  /\ pc = "idle"
  /\ queue = <<>>
  /\ unfinished = 0
  /\ wstate = [w \in Workers |-> "none"]
  /\ witem = [w \in Workers |-> NoServer]
  /\ wcancel = [w \in Workers |-> FALSE]
  /\ results = <<>>
  /\ report = <<>>
  /\ takes = [t \in Servers |-> 0]
  /\ writes = [t \in Servers |-> 0]
  /\ outcome = [t \in Servers |-> NoOutcome]

\* get_domain_from_id("@localpart:domain")
get_domain_from_id(id) == id[2]

\* filter_events_based_on_type(events, type)
filter_events_based_on_type(events, type) ==
  SelectSeq(events, LAMBDA e : e.type = type)

\* filter_state_events_based_on_membership(events, membership)
filter_state_events_based_on_membership(events, membership) ==
  SelectSeq(events, LAMBDA e : e.membership = membership)

\* Place e behind every event of s whose depth is not greater.
RECURSIVE InsertByDepth(_, _)
InsertByDepth(e, s) ==
  IF s = <<>> THEN <<e>>
  ELSE IF s[Len(s)].depth <= e.depth THEN Append(s, e)
  ELSE Append(InsertByDepth(e, SubSeq(s, 1, Len(s) - 1)), s[Len(s)])

\* Variant: the list is left in the order of the state dictionary.
SortByDepth_Unsorted(events) == events

\* joined_member_events.sort(key=lambda x: x.depth): a stable sort.
RECURSIVE SortByDepth(_)
SortByDepth(events) ==
  IF events = <<>> THEN <<>>
  ELSE InsertByDepth(events[Len(events)], SortByDepth(SubSeq(events, 1, Len(events) - 1)))

\* for member in joined_member_events: append the host unless already listed
RECURSIVE CollectHosts(_, _)
CollectHosts(members, listed) ==
  IF members = <<>> THEN listed
  ELSE LET host == get_domain_from_id(Head(members).state_key) IN
         CollectHosts(Tail(members),
                      IF host \in Range(listed) THEN listed ELSE Append(listed, host))

\* Variant: the member events are not filtered by membership.
get_hosts_in_room_ordered_AnyMembership(events) ==
  LET filtered_room_member_events == filter_events_based_on_type(events, "m.room.member")
  IN  CollectHosts(SortByDepth(filtered_room_member_events), <<>>)

get_hosts_in_room_ordered(events) ==
  LET filtered_room_member_events == filter_events_based_on_type(events, "m.room.member")
      joined_member_events ==
        filter_state_events_based_on_membership(filtered_room_member_events, "join")
  IN  CollectHosts(SortByDepth(joined_member_events), <<>>)

HostInit ==
  /\ state_events \in StateLists
  /\ hosts_ordered = <<>>
  /\ previous_hosts = <<>>
  /\ calls = 0
  /\ state_listing = <<>>
  /\ DispatchIdle
  /\ WalkIdle
  /\ ResolverIdle
  /\ PreambleIdle
  /\ CombineIdle

\* One call of get_hosts_in_room_ordered on the state; it is called at most twice.
CallGetHosts ==
  /\ calls < 2
  /\ previous_hosts' = hosts_ordered
  /\ hosts_ordered' = get_hosts_in_room_ordered(state_events)
  /\ calls' = calls + 1
  /\ UNCHANGED <<state_events, state_listing>>
  /\ UNCHANGED <<dvars, wvars, rvars, pvars, cvars>>

HostNext == CallGetHosts

HostSpec == HostInit /\ [][HostNext]_vars

(***************************************************************************)
(* The reports: the dispatch runs together with the state listing.         *)
(***************************************************************************)

\* state_command: one row per event of the state, by ascending depth
\* ("list_of_event_ids.sort(key=lambda x: x[0])", then the render loop).
StateListing(events) ==
  LET list_of_event_ids == SortByDepth(events)
  IN  [i \in 1..Len(list_of_event_ids) |->
         [depth |-> list_of_event_ids[i].depth,
          event |-> <<list_of_event_ids[i].type, list_of_event_ids[i].state_key>>]]

\* state_command renders the state it has fetched.
state_command ==
  /\ state_listing' = StateListing(state_events)
  /\ UNCHANGED <<state_events, hosts_ordered, previous_hosts, calls>>
  /\ UNCHANGED <<dvars, wvars, rvars, pvars, cvars>>

\* States of two join events of @u1:a.org and @u1:b.org, the deeper one first.
DeeperFirst ==
  {events \in StateLists :
     /\ Len(events) = 2
     /\ \A i \in 1..2 : events[i].type = "m.room.member" /\ events[i].membership = "join"
     /\ events[1].state_key = <<"u1", "a.org">>
     /\ events[2].state_key = <<"u1", "b.org">>
     /\ events[1].depth > events[2].depth}

\* A dispatch run over a room of two servers while a state of two events is
\* listed: the bot serves commands concurrently.
JointInit ==
  /\ DispatchInit
  /\ cmd \in LimitedCommands
  /\ Len(host_list) = 2
  /\ state_events \in DeeperFirst
  /\ hosts_ordered = <<>>
  /\ previous_hosts = <<>>
  /\ calls = 0
  /\ state_listing = <<>>
  /\ WalkIdle
  /\ ResolverIdle
  /\ PreambleIdle
  /\ CombineIdle

\* A dispatch run, a listing of a state, or both at once.
ReportInit == Init \/ HostInit \/ JointInit

ReportNext == Next \/ state_command

ReportSpec == ReportInit /\ [][ReportNext]_vars

(***************************************************************************)
(* Part 3: room_walk_command and its fetcher task.                         *)
(***************************************************************************)

\* Time is counted in tenths of a second.  What a page fetch can take
\* (iter_finish_time - iter_start_time): 2.0 seconds, half of which is a
\* backoff of just one second, or 3.0 seconds, half of which is above it.
Latencies == {20, 30}

\* "if back_off_time > 1.0"
BackoffThreshold == 10

\* _time_spent * 0.5
Half(time_spent) == (time_spent * 5) \div 10

\* What the preamble of room_walk_command can find: the sender is on another
\* server, the bot has no signing keys, the room alias does not resolve,
\* per_iteration is no integer, the timestamp lookup fails, or all is well.
WalkChecks == {"other_server", "no_signing_keys", "unresolved_room",
               "per_iteration_not_int", "timestamp_error", "ok"}

\* The checks in the order of the code; each ends the command when it fails.
CheckOrder == <<"other_server", "no_signing_keys", "unresolved_room",
                "per_iteration_not_int", "timestamp_error">>

\* The first check that does not pass, "ok" when all pass.
FirstFailure(passes) ==
  IF \A i \in DOMAIN CheckOrder : passes[CheckOrder[i]]
    THEN "ok"
    ELSE CheckOrder[CHOOSE i \in DOMAIN CheckOrder :
                      /\ ~passes[CheckOrder[i]]
                      /\ \A j \in 1..(i - 1) : passes[CheckOrder[j]]]

\* The event the pinned progress message of the walk is sent as.
PinnedMessage == "pinned_message"

\* ReactionCommandStatus
ReactionCommandStatus == {"START", "PAUSE", "STOP"}

\* The keys a reaction can carry: the three commands and anything else.
ReactionKeys == ReactionCommandStatus \cup {"other"}

\* Who sends a reaction: the bot itself (self.client.mxid) or a user.
Senders == {"bot", "user"}

\* The event ids a room can hold.
EventIds == {"$e1", "$e2"}

\* client.get_messages(direction, from_token): the page behind from_token,
\* holding the events the server returns for it.
\* Its "end" is the token of the next page, or empty on the last page.
get_messages(for_direction, from_token, chunk) ==
  [start |-> from_token,
   events |-> chunk,
   end   |-> IF from_token + 1 < pages[for_direction] THEN from_token + 1 ELSE NoToken]

\* No walk is modelled in the other parts.
notControl == <<dvars, hvars, rvars, pvars, cvars>>

\* What the steps of the walk leave alone: the other parts, and the record of
\* the accepted reactions, which the walk neither reads nor writes.
notWalk == <<notControl, last_accepted>>

WalkInit ==
  /\ \E room \in [Directions -> 1..MaxPages] : WalkFresh("start", room)
  /\ DispatchIdle
  /\ HostsIdle
  /\ ResolverIdle
  /\ PreambleIdle
  /\ CombineIdle

\* Variant: the queue is primed with the first item twice.
PrimedQueue_Twice == <<<<0, NoToken>>, <<0, NoToken>>>>

\* "put_nowait((0.0, None))": the item that starts a phase.
PrimedQueue == <<<<0, NoToken>>>>

\* Variant: the fetcher is created and the queue primed before the checks.
StartWalk_TaskBeforeChecks ==
  /\ wpc = "start"
  /\ \E passes \in [WalkChecks \ {"ok"} -> BOOLEAN] :
       wpc' = (IF FirstFailure(passes) # "ok" THEN FirstFailure(passes) ELSE "loop")
  /\ fstate' = [fstate EXCEPT !["f"] = "get"]
  /\ fetch_queue' = [fetch_queue EXCEPT !["f"] = PrimedQueue]
  /\ unfinished_tasks' = [unfinished_tasks EXCEPT !["f"] = Len(PrimedQueue)]
  /\ UNCHANGED <<phase, pages, fcancel, retry_token, back_off_time, next_token,
                 response_list, finish, iterations, task_control, fetched, handled,
                 signal>>
  /\ UNCHANGED idvars
  /\ UNCHANGED notWalk

\* room_walk_command up to the start of the discovery loop: the checks, the
\* pinned message, the discovery fetcher and the first queue item.  A check
\* that fails ends the command there.
StartWalk ==
  /\ wpc = "start"
  /\ \E passes \in [WalkChecks \ {"ok"} -> BOOLEAN] :
       LET check == FirstFailure(passes) IN
       IF check # "ok"
         THEN /\ wpc' = check
              /\ UNCHANGED <<fstate, fetch_queue, unfinished_tasks>>
         ELSE /\ wpc' = "loop"
              /\ fstate' = [fstate EXCEPT !["f"] = "get"]
              /\ fetch_queue' = [fetch_queue EXCEPT !["f"] = PrimedQueue]
              /\ unfinished_tasks' = [unfinished_tasks EXCEPT !["f"] = Len(PrimedQueue)]
  /\ UNCHANGED <<phase, pages, fcancel, retry_token, back_off_time, next_token,
                 response_list, finish, iterations, task_control, fetched, handled,
                 signal>>
  /\ UNCHANGED idvars
  /\ UNCHANGED notWalk

\* Where the fetcher goes after the queue: it sleeps when the backoff exceeds
\* one second, and issues the fetch at once otherwise.
AfterBackoff(back_off) == IF back_off > BackoffThreshold THEN "sleep" ELSE "fetch"

\* Variant: the fetcher takes the item off the queue and keeps the token of
\* the fetch before.
FetcherGet_StaleToken(d) ==
  /\ fstate[d] = "get"
  /\ ~fcancel[d]
  /\ ~retry_token[d]
  /\ fetch_queue[d] # <<>>
  /\ back_off_time' = [back_off_time EXCEPT ![d] = Head(fetch_queue[d])[1]]
  /\ fetch_queue' = [fetch_queue EXCEPT ![d] = Tail(fetch_queue[d])]
  /\ fstate' = [fstate EXCEPT ![d] = AfterBackoff(Head(fetch_queue[d])[1])]
  /\ UNCHANGED <<wpc, phase, pages, fcancel, retry_token, next_token, unfinished_tasks,
                 response_list, finish, iterations, task_control, fetched, handled,
                 signal>>
  /\ UNCHANGED idvars
  /\ UNCHANGED notWalk

\* _inner_walking_fetcher: "back_off_time, next_token = await queue.get()".
FetcherGet(d) ==
  /\ fstate[d] = "get"
  /\ ~fcancel[d]
  /\ ~retry_token[d]
  /\ fetch_queue[d] # <<>>
  /\ back_off_time' = [back_off_time EXCEPT ![d] = Head(fetch_queue[d])[1]]
  /\ next_token' = [next_token EXCEPT ![d] = Head(fetch_queue[d])[2]]
  /\ fetch_queue' = [fetch_queue EXCEPT ![d] = Tail(fetch_queue[d])]
  /\ fstate' = [fstate EXCEPT ![d] = AfterBackoff(Head(fetch_queue[d])[1])]
  /\ UNCHANGED <<wpc, phase, pages, fcancel, retry_token, unfinished_tasks,
                 response_list, finish, iterations, task_control, fetched, handled,
                 signal>>
  /\ UNCHANGED idvars
  /\ UNCHANGED notWalk

\* _inner_walking_fetcher: asyncio.sleep(back_off_time) returns.
FetcherSleep(d) ==
  /\ fstate[d] = "sleep"
  /\ ~fcancel[d]
  /\ fstate' = [fstate EXCEPT ![d] = "fetch"]
  /\ UNCHANGED <<wpc, phase, pages, fcancel, retry_token, back_off_time, next_token,
                 fetch_queue, unfinished_tasks, response_list, finish, iterations,
                 task_control, fetched, handled, signal>>
  /\ UNCHANGED idvars
  /\ UNCHANGED notWalk

\* Variant: the whole latency is used as the backoff of the next item.
PutAfterPage_FullLatency(q, time_spent, worker_response) ==
  IF worker_response.end # NoToken
    THEN Append(q, <<time_spent, worker_response.end>>)
    ELSE q

\* "if getattr(worker_response, "end"): queue.put_nowait((_time_spent * 0.5, worker_response.end))"
PutAfterPage(q, time_spent, worker_response) ==
  IF worker_response.end # NoToken
    THEN Append(q, <<Half(time_spent), worker_response.end>>)
    ELSE q

\* _inner_walking_fetcher: get_messages returns a page after time_spent.  The
\* page is appended to response_list, its token is put on the queue, the item
\* is marked done and the fetcher waits on the queue again.
FetchReturns(d) ==
  /\ fstate[d] = "fetch"
  /\ ~fcancel[d]
  /\ \E time_spent \in Latencies, chunk \in SUBSET EventIds :
       LET worker_response == get_messages(d, next_token[d], chunk)
           put == PutAfterPage(fetch_queue[d], time_spent, worker_response)
       IN  /\ response_list' = Append(response_list, <<time_spent, worker_response>>)
           /\ fetch_queue' = [fetch_queue EXCEPT ![d] = put]
           /\ unfinished_tasks' =
                [unfinished_tasks EXCEPT ![d] = @ + Len(put) - Len(fetch_queue[d]) - 1]
           /\ returned_ids' = [returned_ids EXCEPT ![d] = @ \cup chunk]
  /\ retry_token' = [retry_token EXCEPT ![d] = FALSE]
  /\ fetched' = [fetched EXCEPT ![d] = @ + 1]
  /\ fstate' = [fstate EXCEPT ![d] = "get"]
  /\ UNCHANGED <<wpc, phase, pages, fcancel, back_off_time, next_token, finish,
                 iterations, task_control, handled, signal>>
  /\ UNCHANGED <<discovery_collection_of_event_ids, discovery_total_events_received,
                 backwalk_collection_of_event_ids, backwalk_count_of_new_event_ids>>
  /\ UNCHANGED notWalk

\* Variant: the failed item is marked done and the fetcher takes the next
\* item off the queue.
FetchFails_ItemDropped(d) ==
  /\ fstate[d] = "fetch"
  /\ ~fcancel[d]
  /\ unfinished_tasks' = [unfinished_tasks EXCEPT ![d] = @ - 1]
  /\ fstate' = [fstate EXCEPT ![d] = "get"]
  /\ UNCHANGED <<wpc, phase, pages, fcancel, retry_token, back_off_time, next_token,
                 fetch_queue, response_list, finish, iterations, task_control,
                 fetched, handled, signal>>
  /\ UNCHANGED idvars
  /\ UNCHANGED notWalk

\* _inner_walking_fetcher: get_messages raises MatrixRequestError
\* ("except MatrixRequestError: retry_token = True").  The loop
\* starts over without touching the queue: with retry_token set it skips
\* queue.get(), sleeps if the backoff asks for it and fetches again.
FetchFails(d) ==
  /\ fstate[d] = "fetch"
  /\ ~fcancel[d]
  /\ retry_token' = [retry_token EXCEPT ![d] = TRUE]
  /\ fstate' = [fstate EXCEPT ![d] = AfterBackoff(back_off_time[d])]
  /\ UNCHANGED <<wpc, phase, pages, fcancel, back_off_time, next_token, fetch_queue,
                 unfinished_tasks, response_list, finish, iterations, task_control,
                 fetched, handled, signal>>
  /\ UNCHANGED idvars
  /\ UNCHANGED notWalk

\* Variant: the fetcher catches the CancelledError and waits on the queue again.
FetcherCancelled_Swallowed(d) ==
  /\ fcancel[d]
  /\ fstate[d] \in {"get", "sleep", "fetch"}
  /\ fstate' = [fstate EXCEPT ![d] = "get"]
  /\ fcancel' = [fcancel EXCEPT ![d] = FALSE]
  /\ UNCHANGED <<wpc, phase, pages, retry_token, back_off_time, next_token,
                 fetch_queue, unfinished_tasks, response_list, finish, iterations,
                 task_control, fetched, handled, signal>>
  /\ UNCHANGED idvars
  /\ UNCHANGED notWalk

\* CancelledError reaches the fetcher at the await it is suspended at; the
\* fetcher catches MatrixRequestError only, so the task ends.
FetcherCancelled(d) ==
  /\ fcancel[d]
  /\ fstate[d] \in {"get", "sleep", "fetch"}
  /\ fstate' = [fstate EXCEPT ![d] = "ended"]
  /\ fcancel' = [fcancel EXCEPT ![d] = FALSE]
  /\ UNCHANGED <<wpc, phase, pages, retry_token, back_off_time, next_token,
                 fetch_queue, unfinished_tasks, response_list, finish, iterations,
                 task_control, fetched, handled, signal>>
  /\ UNCHANGED idvars
  /\ UNCHANGED notWalk

\* Variant: any page ends the phase.
FinishAfter_AnyPage(responses, fin) == IF responses = <<>> THEN fin ELSE TRUE

\* "for time_spent, response in new_responses_to_work_on": finish is set by
\* every page in turn, to whether the page has no "end".
RECURSIVE FinishAfter(_, _)
FinishAfter(responses, fin) ==
  IF responses = <<>> THEN fin
  ELSE FinishAfter(Tail(responses), Head(responses)[2].end = NoToken)

\* The number of the page a response holds.
PageOf(response) == response[2].start + 1

\* Variant: the list is emptied without a copy having been taken.
Snapshot_NoCopy(responses) == <<>>

\* "new_responses_to_work_on = response_list.copy()"
Snapshot(responses) == responses

\* Variant: only the events of the last page of the snapshot are collected.
NewEventIds_LastPageOnly(responses) ==
  IF responses = <<>> THEN {} ELSE responses[Len(responses)][2].events

\* "for event in response.events: new_event_ids.add(event.event_id)", over the
\* pages of one snapshot.
RECURSIVE NewEventIds(_)
NewEventIds(responses) ==
  IF responses = <<>> THEN {}
  ELSE Head(responses)[2].events \cup NewEventIds(Tail(responses))

\* Variant: the backfill loop adds its event ids to the discovery set too.
SnapshotLoop_DiscoveryGrows ==
  /\ wpc = "loop"
  /\ LET new_responses_to_work_on == Snapshot(response_list)
     IN  /\ response_list' = <<>>
         /\ iterations' = [iterations EXCEPT ![phase] = @ + Len(new_responses_to_work_on)]
         /\ handled' = [handled EXCEPT ![phase] =
                          @ \o [i \in 1..Len(new_responses_to_work_on) |->
                                  PageOf(new_responses_to_work_on[i])]]
         /\ finish' = FinishAfter(new_responses_to_work_on, finish)
         /\ wpc' = IF FinishAfter(new_responses_to_work_on, finish) THEN "break" ELSE "loop"
         /\ LET new_event_ids == NewEventIds(new_responses_to_work_on)
                difference_of_bw_to_discovery ==
                  new_event_ids \ discovery_collection_of_event_ids
            IN  IF phase = "f"
                  THEN /\ discovery_collection_of_event_ids' =
                            discovery_collection_of_event_ids \cup new_event_ids
                       /\ discovery_total_events_received' =
                            Cardinality(discovery_collection_of_event_ids \cup new_event_ids)
                       /\ UNCHANGED <<backwalk_collection_of_event_ids,
                                      backwalk_count_of_new_event_ids>>
                  ELSE /\ backwalk_count_of_new_event_ids' =
                            backwalk_count_of_new_event_ids
                              + Cardinality(difference_of_bw_to_discovery)
                       /\ backwalk_collection_of_event_ids' =
                            backwalk_collection_of_event_ids \cup new_event_ids
                       /\ discovery_collection_of_event_ids' =
                            discovery_collection_of_event_ids \cup new_event_ids
                       /\ UNCHANGED discovery_total_events_received
  /\ UNCHANGED returned_ids
  /\ UNCHANGED <<phase, pages, fstate, fcancel, retry_token, back_off_time,
                 next_token, fetch_queue, unfinished_tasks, task_control, fetched,
                 signal>>
  /\ UNCHANGED notWalk

\* One turn of the discovery or backfill loop: the pages fetched since the
\* last turn are taken off response_list and counted, finish is decided, the
\* progress message is edited; the loop then sleeps, or leaves when finish is
\* set.
SnapshotLoop ==
  /\ wpc = "loop"
  /\ LET new_responses_to_work_on == Snapshot(response_list)
     IN  /\ response_list' = <<>>
         /\ iterations' = [iterations EXCEPT ![phase] = @ + Len(new_responses_to_work_on)]
         /\ handled' = [handled EXCEPT ![phase] =
                          @ \o [i \in 1..Len(new_responses_to_work_on) |->
                                  PageOf(new_responses_to_work_on[i])]]
         /\ finish' = FinishAfter(new_responses_to_work_on, finish)
         /\ wpc' = IF FinishAfter(new_responses_to_work_on, finish) THEN "break" ELSE "loop"
         /\ LET new_event_ids == NewEventIds(new_responses_to_work_on)
                difference_of_bw_to_discovery ==
                  new_event_ids \ discovery_collection_of_event_ids
            IN  IF phase = "f"
                  THEN /\ discovery_collection_of_event_ids' =
                            discovery_collection_of_event_ids \cup new_event_ids
                       /\ discovery_total_events_received' =
                            Cardinality(discovery_collection_of_event_ids \cup new_event_ids)
                       /\ UNCHANGED <<backwalk_collection_of_event_ids,
                                      backwalk_count_of_new_event_ids>>
                  ELSE /\ backwalk_count_of_new_event_ids' =
                            backwalk_count_of_new_event_ids
                              + Cardinality(difference_of_bw_to_discovery)
                       /\ backwalk_collection_of_event_ids' =
                            backwalk_collection_of_event_ids \cup new_event_ids
                       /\ UNCHANGED <<discovery_collection_of_event_ids,
                                      discovery_total_events_received>>
  /\ UNCHANGED returned_ids
  /\ UNCHANGED <<phase, pages, fstate, fcancel, retry_token, back_off_time,
                 next_token, fetch_queue, unfinished_tasks, task_control, fetched,
                 signal>>
  /\ UNCHANGED notWalk

\* "if finish: break", then "task.cancel()" and the start of the gather.
CancelFetcher ==
  /\ wpc = "break"
  /\ fcancel' = [fcancel EXCEPT ![phase] = fstate[phase] \in {"get", "sleep", "fetch"}]
  /\ wpc' = "gather"
  /\ UNCHANGED <<phase, pages, fstate, retry_token, back_off_time, next_token,
                 fetch_queue, unfinished_tasks, response_list, finish, iterations,
                 task_control, fetched, handled, signal>>
  /\ UNCHANGED idvars
  /\ UNCHANGED notWalk

\* Variant: the gather is not awaited.
FetcherGathered_NotAwaited == TRUE

\* "await asyncio.gather(task, return_exceptions=True)" returns once the task
\* has ended.
FetcherGathered == fstate[phase] = "ended"

\* After discovery: the counters, the queue and the list of the backfill
\* phase, its fetcher and the first queue item.
StartBackfill ==
  /\ wpc = "gather"
  /\ phase = "f"
  /\ FetcherGathered
  /\ phase' = "b"
  /\ iterations' = [iterations EXCEPT !["b"] = 0]
  /\ response_list' = <<>>
  /\ fstate' = [fstate EXCEPT !["b"] = "get"]
  /\ finish' = FALSE
  /\ fetch_queue' = [fetch_queue EXCEPT !["b"] = PrimedQueue]
  /\ unfinished_tasks' = [unfinished_tasks EXCEPT !["b"] = Len(PrimedQueue)]
  /\ wpc' = "loop"
  /\ backwalk_collection_of_event_ids' = {}
  /\ backwalk_count_of_new_event_ids' = 0
  /\ UNCHANGED <<discovery_collection_of_event_ids, discovery_total_events_received,
                 returned_ids>>
  /\ UNCHANGED <<pages, fcancel, retry_token, back_off_time, next_token,
                 task_control, fetched, handled, signal>>
  /\ UNCHANGED notWalk

\* After backfill: the header becomes "Room Back-walking Procedure: Done" and
\* the last edit of the progress message is sent.
ReportDone ==
  /\ wpc = "gather"
  /\ phase = "b"
  /\ FetcherGathered
  /\ wpc' = "done"
  /\ UNCHANGED <<phase, pages, fstate, fcancel, retry_token, back_off_time,
                 next_token, fetch_queue, unfinished_tasks, response_list, finish,
                 iterations, task_control, fetched, handled, signal>>
  /\ UNCHANGED idvars
  /\ UNCHANGED notWalk

\* Variant: the entry is written whether or not the event is a key.
TaskControlAfter_AnyEvent(sender, event_id, key) ==
  IF sender # "bot" /\ key \in ReactionCommandStatus
    THEN (event_id :> key) @@ task_control
    ELSE task_control

\* react_control_handler: a reaction with one of the three command keys, sent
\* by someone else than the bot on an event that is a key of task_control,
\* sets the entry of that event.
TaskControlAfter(sender, event_id, key) ==
  IF sender # "bot" /\ event_id \in DOMAIN task_control /\ key \in ReactionCommandStatus
    THEN [task_control EXCEPT ![event_id] = key]
    ELSE task_control

\* Variant: the sender of the reaction is not looked at.
react_control_handler_AnySender(sender, event_id, key) ==
  /\ task_control' = TaskControlAfter("user", event_id, key)
  /\ signal' = IF sender # "bot" /\ key \in ReactionCommandStatus THEN key ELSE signal
  /\ last_accepted' =
       IF sender # "bot" /\ event_id \in DOMAIN task_control /\ key \in ReactionCommandStatus
         THEN (event_id :> key) @@ last_accepted
         ELSE last_accepted

react_control_handler(sender, event_id, key) ==
  /\ task_control' = TaskControlAfter(sender, event_id, key)
  /\ signal' = IF sender # "bot" /\ key \in ReactionCommandStatus THEN key ELSE signal
  /\ last_accepted' =
       IF sender # "bot" /\ event_id \in DOMAIN task_control /\ key \in ReactionCommandStatus
         THEN (event_id :> key) @@ last_accepted
         ELSE last_accepted

\* A reaction arrives on the pinned message while the walk runs.
Reaction ==
  /\ wpc \in {"loop", "break", "gather"}
  /\ \E sender \in Senders, key \in ReactionKeys :
       react_control_handler(sender, PinnedMessage, key)
  /\ UNCHANGED <<wpc, phase, pages, fstate, fcancel, retry_token, back_off_time,
                 next_token, fetch_queue, unfinished_tasks, response_list, finish,
                 iterations, fetched, handled>>
  /\ UNCHANGED idvars
  /\ UNCHANGED notControl

\* Events that reactions can refer to: messages that are sessions of
\* task_control or not, the pinned message of a walk among them.
SessionIds == {"$m1", "$m2", "$m3", PinnedMessage}

\* The dictionaries task_control can be: some events, each with a status.
TaskControls ==
  UNION {[S -> ReactionCommandStatus] : S \in SUBSET SessionIds}

\* react_control_handler taken on its own, as a function of the dictionary it
\* is handed: no command runs.
ControlInit ==
  /\ task_control \in TaskControls
  /\ WalkLocals("idle", [d \in Directions |-> 1])
  /\ DispatchIdle
  /\ HostsIdle
  /\ ResolverIdle
  /\ PreambleIdle
  /\ CombineIdle

\* A reaction arrives on any event.
ControlReaction ==
  /\ \E sender \in Senders, event_id \in SessionIds, key \in ReactionKeys :
       react_control_handler(sender, event_id, key)
  /\ UNCHANGED <<wpc, phase, pages, fstate, fcancel, retry_token, back_off_time,
                 next_token, fetch_queue, unfinished_tasks, response_list, finish,
                 iterations, fetched, handled>>
  /\ UNCHANGED idvars
  /\ UNCHANGED notControl

ControlNext == ControlReaction

ControlSpec == ControlInit /\ [][ControlNext]_vars

WalkNext ==
  \/ StartWalk
  \/ \E d \in Directions :
       \/ FetcherGet(d)
       \/ FetcherSleep(d)
       \/ FetchReturns(d)
       \/ FetchFails(d)
       \/ FetcherCancelled(d)
  \/ SnapshotLoop
  \/ CancelFetcher
  \/ StartBackfill
  \/ ReportDone
  \/ Reaction

WalkSpec == WalkInit /\ [][WalkNext]_vars

\* The event loop resumes every task that can run: a fetcher that can take an
\* item, wake up or be cancelled does so, a fetch ends (one way or the
\* other), and the command coroutine takes its next step.  Nothing obliges the
\* server to answer a fetch with a page rather than an error.
WalkFairness ==
  /\ WF_vars(StartWalk)
  /\ \A d \in Directions :
       /\ WF_vars(FetcherGet(d))
       /\ WF_vars(FetcherSleep(d))
       /\ WF_vars(FetchReturns(d) \/ FetchFails(d))
       /\ WF_vars(FetcherCancelled(d))
  /\ WF_vars(SnapshotLoop)
  /\ WF_vars(CancelFetcher)
  /\ WF_vars(StartBackfill)
  /\ WF_vars(ReportDone)

WalkFairSpec == WalkSpec /\ WalkFairness

\* The steps of the command coroutine, and those of a fetcher task.
CommandStep == StartWalk \/ SnapshotLoop \/ CancelFetcher \/ StartBackfill \/ ReportDone

FetcherStep(d) ==
  FetcherGet(d) \/ FetcherSleep(d) \/ FetchReturns(d) \/ FetchFails(d) \/ FetcherCancelled(d)

\* The event loop runs every task that can run, and the server answers: a
\* page fetch that is issued again and again eventually returns a page.
WalkSuccessFairness ==
  /\ WF_vars(CommandStep)
  /\ \A d \in Directions : WF_vars(FetcherStep(d)) /\ SF_vars(FetchReturns(d))

WalkSuccessSpec == WalkSpec /\ WalkSuccessFairness

(***************************************************************************)
(* The resolution of a server name.                                        *)
(*                                                                         *)
(* The server name is a record: whether it carries a scheme prefix, its    *)
(* host part, its port.  The environment of a resolution is the answer to  *)
(* the well-known request and the answers to the two SRV queries.          *)
(***************************************************************************)

DefaultPort == 8448
ExplicitPort == 1234
SrvPort == 8443

IpLiterals == {"1.2.3.4", "[::1]"}
HostNames == {"example.org", "deleg.example.org"}
SrvTarget == "srv.example.net"

IsLiteralIp(host) == host \in IpLiterals

\* Variant: a scheme prefix goes unnoticed.
Malformed_Never(name) == FALSE

\* A server name never carries a URI scheme.
Malformed(name) == name.scheme

ServerNames ==
  [scheme : BOOLEAN, host : IpLiterals \cup HostNames, port : {NoPort, ExplicitPort}]

\* The ways the well-known request fails: no document, no connection, a
\* status outside 2xx, a body that is not the expected JSON, a delegated name
\* with a scheme prefix.
WellKnownFailures == {"404", "transport_error", "non_2xx", "unparseable", "scheme"}

\* A well-known answer: a failure, or a document naming a delegated server.
WellKnownAnswers ==
  [status : WellKnownFailures, host : {""}, port : {NoPort}] \cup
  [status : {"ok"}, host : {"deleg.example.org", "1.2.3.4"}, port : {NoPort, ExplicitPort}]

SrvKinds == {"srv-modern", "srv-deprecated"}

\* An SRV query finds no record, a record whose target resolves, or a record
\* whose target has no A/AAAA record.
SrvAnswers == {"none", "ok", "unresolvable"}

\* The step identities of a trace, in the order of the algorithm.
Steps ==
  <<"literal-ip", "dns-with-port", "well-known", "srv-modern", "srv-deprecated",
    "hostname-default-port">>

StepIndex(s) == CHOOSE i \in 1..Len(Steps) : Steps[i] = s

Endpoint(host, port, tls, via) == [host |-> host, port |-> port, tls |-> tls, via |-> via]

Resolution(e, attempted) == [endpoint |-> e, attempted |-> attempted]

\* Steps 1 / 3a: a literal IP is used with the explicit port, or 8448.
PortOrDefault(port) == IF port = NoPort THEN DefaultPort ELSE port

\* Steps 4, 5 and then 6 (for the name itself) or 3c, 3d and then 3e (for a
\* delegated name): the first SRV kind that answers decides; with neither the
\* hostname is used with port 8448.
SrvThenDefault(host, answers, attempted, last) ==
  IF answers["srv-modern"] = "ok"
    THEN Resolution(Endpoint(SrvTarget, SrvPort, host, "srv-modern"),
                    Append(attempted, <<"srv-modern", "ok">>))
    ELSE IF answers["srv-deprecated"] = "ok"
      THEN Resolution(Endpoint(SrvTarget, SrvPort, host, "srv-deprecated"),
                      attempted \o <<(<<"srv-modern", "failed">>),
                                     (<<"srv-deprecated", "ok">>)>>)
      ELSE Resolution(Endpoint(host, DefaultPort, host, last[1]),
                      attempted \o <<(<<"srv-modern", "failed">>),
                                     (<<"srv-deprecated", "failed">>)>> \o last[2])

\* Variant: a delegated name is looked up by SRV even when it has a port.
Delegated_SrvFirst(wk, answers) ==
  LET attempted == <<(<<"well-known", "ok">>)>> IN
    IF IsLiteralIp(wk.host)
      THEN Resolution(Endpoint(wk.host, PortOrDefault(wk.port), wk.host, "literal-ip"),
                      Append(attempted, <<"literal-ip", "ok">>))
      ELSE SrvThenDefault(wk.host, answers, attempted, <<"well-known", <<>>>>)

\* Steps 3a to 3e, for the delegated name of a well-known document.
Delegated(wk, answers) ==
  LET attempted == <<(<<"well-known", "ok">>)>> IN
    IF IsLiteralIp(wk.host)
      THEN Resolution(Endpoint(wk.host, PortOrDefault(wk.port), wk.host, "literal-ip"),
                      Append(attempted, <<"literal-ip", "ok">>))
      ELSE IF wk.port # NoPort
        THEN Resolution(Endpoint(wk.host, wk.port, wk.host, "dns-with-port"),
                        Append(attempted, <<"dns-with-port", "ok">>))
        ELSE SrvThenDefault(wk.host, answers, attempted, <<"well-known", <<>>>>)

\* Variant: a failed well-known request ends the resolution.
AfterWellKnown_Abort(name, wk, answers) ==
  IF wk.status = "ok"
    THEN Delegated(wk, answers)
    ELSE Resolution(NoEndpoint, <<(<<"well-known", "failed">>)>>)

\* Step 3 and what follows it.
AfterWellKnown(name, wk, answers) ==
  IF wk.status = "ok"
    THEN Delegated(wk, answers)
    ELSE SrvThenDefault(name.host, answers, <<(<<"well-known", "failed">>)>>,
                        <<"hostname-default-port",
                          <<(<<"hostname-default-port", "ok">>)>>>>)

\* Variant: the literal IP is not recognised and is resolved like a hostname.
Attempt_NoLiteralIp(name, wk, answers) ==
  IF Malformed(name)
    THEN Resolution(NoEndpoint, <<(<<"literal-ip", "failed">>)>>)
    ELSE IF name.port # NoPort
      THEN Resolution(Endpoint(name.host, name.port, name.host, "dns-with-port"),
                      <<(<<"dns-with-port", "ok">>)>>)
      ELSE AfterWellKnown(name, wk, answers)

\* The steps taken, in strict order, up to the first definitive match.  A
\* name with a scheme prefix fails at the first step.
Attempt(name, wk, answers) ==
  IF Malformed(name)
    THEN Resolution(NoEndpoint, <<(<<"literal-ip", "failed">>)>>)
    ELSE IF IsLiteralIp(name.host)
      THEN Resolution(Endpoint(name.host, PortOrDefault(name.port), name.host,
                               "literal-ip"),
                      <<(<<"literal-ip", "ok">>)>>)
      ELSE IF name.port # NoPort
        THEN Resolution(Endpoint(name.host, name.port, name.host, "dns-with-port"),
                        <<(<<"dns-with-port", "ok">>)>>)
        ELSE AfterWellKnown(name, wk, answers)

Attempted(attempted) == {attempted[i][1] : i \in DOMAIN attempted}

\* The steps that were not attempted, in the order of the algorithm: a step
\* after the first attempted one was made unreachable by it and is skipped.
Unattempted(r) ==
  LET first == StepIndex(r.attempted[1][1])
      rest == SelectSeq(Steps, LAMBDA s : s \notin Attempted(r.attempted))
  IN [i \in 1..Len(rest) |->
        <<rest[i], IF StepIndex(rest[i]) > first /\ r.endpoint # NoEndpoint
                     THEN "skipped" ELSE "not-attempted">>]

\* resolve(server_name) -> (ResolvedEndpoint, DiagnosticTrace): the trace has
\* every step identity once.
Resolve(name, wk, answers) ==
  LET r == Attempt(name, wk, answers) IN
    [endpoint |-> r.endpoint, trace |-> r.attempted \o Unattempted(r)]

ResolverInit ==
  /\ server_name \in ServerNames
  /\ well_known \in WellKnownAnswers
  /\ srv \in [SrvKinds -> SrvAnswers]
  /\ rstate = "start"
  /\ endpoint = NoEndpoint
  /\ trace = <<>>
  /\ delegation_entry = NoEntry

DelegationInit ==
  ResolverInit /\ DispatchIdle /\ HostsIdle /\ WalkIdle /\ PreambleIdle /\ CombineIdle

notResolver == <<dvars, hvars, wvars, pvars, cvars>>

resolve_delegation ==
  /\ rstate = "start"
  /\ LET r == Resolve(server_name, well_known, srv) IN
       /\ endpoint' = r.endpoint
       /\ trace' = r.trace
  /\ rstate' = "resolved"
  /\ UNCHANGED <<server_name, well_known, srv, delegation_entry>>
  /\ UNCHANGED notResolver

\* What wait_for(get_server_version(name, diagnostics=True), timeout=10.0)
\* does once the name is resolved: without endpoint no request is made, and
\* the handler returns an error response that carries the trace or raises.
VersionOutcomes(e) ==
  IF e = NoEndpoint
    THEN {<<"return", "FederationErrorResponse">>} \cup
         {<<"raise", m>> : m \in ExceptionMessages}
    ELSE LimitedOutcomes

\* _delegation_worker for one name: the entry of server_to_server_data.
delegation_worker ==
  /\ rstate = "resolved"
  /\ \E o \in VersionOutcomes(endpoint) :
       delegation_entry' = WorkerRecord("delegation", o)
  /\ rstate' = "reported"
  /\ UNCHANGED <<server_name, well_known, srv, endpoint, trace>>
  /\ UNCHANGED notResolver

DelegationNext == resolve_delegation \/ delegation_worker

DelegationSpec == DelegationInit /\ [][DelegationNext]_vars

(***************************************************************************)
(* The preamble of the delegation, version, server_keys and                *)
(* notary_server_keys commands: from the argument to the set of targets.   *)
(***************************************************************************)

\* What the argument can be: a server name (or a user id, of which the
\* domain is taken), a room id, a room alias.
Arguments == {"server", "room_id", "alias"}

\* What get_room_alias_from_server gives for an alias: a response with a room
\* id, a FederationErrorResponse, a response without room id.
AliasLookups == {"room", "error", "no_room_id"}

\* is_room_id_or_alias(server_to_check): the argument itself when it is a
\* room id or an alias, None otherwise.
is_room_id_or_alias(argument) == IF argument \in {"room_id", "alias"} THEN argument ELSE None

\* _resolve_room_id_or_alias: a room id is returned as it is, an alias is
\* looked up; after an error, and for a response without room id, the result
\* is None.
resolve_room_id_or_alias(room_id_or_alias, lookup) ==
  IF room_id_or_alias = "alias"
    THEN (IF lookup = "room" THEN "!resolved" ELSE None)
    ELSE "!given"

\* "if not maybe_room_id: return", inside "if maybe_room_id:".
ReturnsUnresolved(maybe_room_id, room) == maybe_room_id = None

\* What client.get_joined_members(room) does: it returns the members, raises
\* MForbidden, or raises another error.  No server has members for a room
\* that is None.
JoinedMembersOutcomes(room) ==
  {<<"forbidden", {}>>, <<"raise", {}>>} \cup
  (IF room = None THEN {} ELSE {<<"return", m>> : m \in SUBSET Hosts})

PreambleInit ==
  /\ command \in LimitedCommands
  /\ server_to_check \in Arguments
  /\ alias_lookup \in AliasLookups
  /\ room_to_check = "unset"
  /\ ppc = "start"
  /\ joined_members_requests = 0
  /\ list_of_servers_to_check = {}
  /\ DispatchIdle /\ HostsIdle /\ WalkIdle /\ ResolverIdle /\ CombineIdle

notPreamble == <<dvars, hvars, wvars, rvars, cvars>>

\* From the argument to room_to_check.
ResolveRoom ==
  /\ ppc = "start"
  /\ LET maybe_room_id == is_room_id_or_alias(server_to_check) IN
       IF maybe_room_id # None
         THEN LET room == resolve_room_id_or_alias(maybe_room_id, alias_lookup) IN
                /\ room_to_check' = room
                /\ server_to_check' = ""
                /\ ppc' = IF ReturnsUnresolved(maybe_room_id, room) THEN "returned"
                                                                  ELSE "servers"
         ELSE /\ room_to_check' = "!here"
              /\ ppc' = "servers"
              /\ UNCHANGED server_to_check
  /\ UNCHANGED <<command, alias_lookup, joined_members_requests, list_of_servers_to_check>>
  /\ UNCHANGED notPreamble

\* The set of targets: the server given, or the servers of the members that
\* get_joined_members returns for the room.
CollectServers ==
  /\ ppc = "servers"
  /\ IF server_to_check # ""
       THEN /\ list_of_servers_to_check' = {server_to_check}
            /\ ppc' = "dispatch"
            /\ UNCHANGED joined_members_requests
       ELSE /\ joined_members_requests' = joined_members_requests + 1
            /\ \E o \in JoinedMembersOutcomes(room_to_check) :
                 CASE o[1] = "forbidden" ->
                        ppc' = "returned" /\ UNCHANGED list_of_servers_to_check
                   [] o[1] = "raise" ->
                        ppc' = "raised" /\ UNCHANGED list_of_servers_to_check
                   [] o[1] = "return" ->
                        ppc' = "dispatch" /\ list_of_servers_to_check' = o[2]
  /\ UNCHANGED <<command, server_to_check, alias_lookup, room_to_check>>
  /\ UNCHANGED notPreamble

\* The queue is filled and the worker tasks are created.
CreateWorkers ==
  /\ ppc = "dispatch"
  /\ ppc' = "workers"
  /\ UNCHANGED <<command, server_to_check, alias_lookup, room_to_check,
                 joined_members_requests, list_of_servers_to_check>>
  /\ UNCHANGED notPreamble

PreambleNext == ResolveRoom \/ CollectServers \/ CreateWorkers

PreambleSpec == PreambleInit /\ [][PreambleNext]_vars

(***************************************************************************)

(* combine_lines_to_fit_event: the lines of a report are packed into       *)
(* chunks that fit an event, each chunk under the header.  A string is a   *)
(* sequence of characters.                                                 *)
(***************************************************************************)

\* The size an event may have, scaled down from 40000.
MAX_EVENT_SIZE_FOR_SENDING == 2

\* The lines of a call: at most MaxLines lines of at most MaxLineLen
\* characters; the header has at most MaxHeaderLen characters.
MaxLines == 3
MaxLineLen == 2
MaxHeaderLen == 1

Texts(chars, n) == UNION {[1..k -> chars] : k \in 0..n}

LineTexts == Texts({"a", "b"}, MaxLineLen)
HeaderTexts == Texts({"h"}, MaxHeaderLen)

\* Variant: a new buffer starts empty, without the header.
RECURSIVE CombineLoop_HeaderOnce(_, _, _, _)
CombineLoop_HeaderOnce(lines, header, buffered_line, combined) ==
  IF lines = <<>>
    THEN Append(combined, buffered_line)
    ELSE LET line == Head(lines) IN
           IF Len(buffered_line) + Len(line) > MAX_EVENT_SIZE_FOR_SENDING
             THEN CombineLoop_HeaderOnce(Tail(lines), header, line,
                                         Append(combined, buffered_line))
             ELSE CombineLoop_HeaderOnce(Tail(lines), header, buffered_line \o line,
                                         combined)

\* "for line in list_of_all_lines": a line that does not fit the buffer
\* closes it and starts a new one with the header; the line is then added to
\* the buffer.  After the loop the last buffer is added to the list.
RECURSIVE CombineLoop(_, _, _, _)
CombineLoop(lines, header, buffered_line, combined) ==
  IF lines = <<>>
    THEN Append(combined, buffered_line)
    ELSE LET line == Head(lines) IN
           IF Len(buffered_line) + Len(line) > MAX_EVENT_SIZE_FOR_SENDING
             THEN CombineLoop(Tail(lines), header, header \o line,
                              Append(combined, buffered_line))
             ELSE CombineLoop(Tail(lines), header, buffered_line \o line, combined)

combine_lines_to_fit_event(lines, header) == CombineLoop(lines, header, header, <<>>)

CombineInit ==
  /\ list_of_all_lines \in UNION {[1..n -> LineTexts] : n \in 0..MaxLines}
  /\ header_line \in HeaderTexts
  /\ list_of_combined_lines = <<>>
  /\ cpc = "call"
  /\ DispatchIdle /\ HostsIdle /\ WalkIdle /\ ResolverIdle /\ PreambleIdle

CallCombine ==
  /\ cpc = "call"
  /\ list_of_combined_lines' = combine_lines_to_fit_event(list_of_all_lines, header_line)
  /\ cpc' = "returned"
  /\ UNCHANGED <<list_of_all_lines, header_line>>
  /\ UNCHANGED <<dvars, hvars, wvars, rvars, pvars>>

CombineNext == CallCombine

CombineSpec == CombineInit /\ [][CombineNext]_vars

(***************************************************************************)

(* Properties of the dispatch runs.                                        *)
(***************************************************************************)

Targets == Range(host_list)
InFlight == {w \in Workers : wstate[w] = "probe"}
AllWorkersEnded == \A w \in Workers : wstate[w] \in {"none", "dead", "ended"} /\ ~wcancel[w]
Returned == pc \in {"gather", "render", "done", "aborted"}
OutcomeKinds == {outcome[t][1] : t \in Targets}

\* C1: for the delegation, version, server_keys and notary_server_keys runs,
\* once queue.join() has returned the result map has exactly one entry per
\* submitted target and no other entry (N targets, N entries), whatever the
\* probes did.
C1_OneEntryPerTarget ==
  (cmd \in LimitedCommands /\ Returned) =>
    /\ DOMAIN results = Targets
    /\ Cardinality(DOMAIN results) = Len(host_list)

\* A run of three targets has returned with a response, a timeout and an
\* exception among its probes.
C1_Witness ==
  /\ cmd \in LimitedCommands
  /\ pc = "done"
  /\ Len(host_list) = 3
  /\ OutcomeKinds = {"return", "timeout", "raise"}

C2_Classified ==
  cmd \in LimitedCommands =>
    \A t \in DOMAIN results :
      /\ outcome[t][1] = "timeout" =>
           /\ results[t].type = "FederationErrorResponse"
           /\ results[t].error_reason = <<"Timeout err">>
      /\ outcome[t][1] = "raise" =>
           /\ results[t].type = "FederationErrorResponse"
           /\ results[t].status_reason = "Plugin Error"
           /\ Len(results[t].error_reason) = 2
           /\ results[t].error_reason[2] = outcome[t][2]
      /\ outcome[t][1] = "return" =>
           /\ results[t].type = outcome[t][2]
           /\ results[t].type # "FederationErrorResponse"

C2_EntriesKept ==
  cmd \in LimitedCommands =>
    /\ \A t \in DOMAIN results : t \in DOMAIN results' /\ results'[t] = results[t]
    /\ \A w \in Workers : wstate'[w] # "dead"

\* C2: in a run of the limited commands every entry is classified by the
\* outcome of its own target's probe (timeout error, plugin error carrying the
\* exception message, or the response); an entry once recorded is never
\* changed or removed by what happens to another target, and no outcome ends a
\* worker or the batch.
C2_OwnOutcomeOnly == [](C2_Classified) /\ [][C2_EntriesKept]_vars

\* An exception on one target was recorded while the entries of a timeout and
\* of a response of two other targets are in the map, and the run went on to
\* its end.
C2_Witness ==
  /\ cmd = "notary_server_keys"
  /\ pc = "done"
  /\ \E t1, t2, t3 \in DOMAIN results :
       /\ outcome[t1][1] = "timeout"
       /\ outcome[t2][1] = "raise"
       /\ outcome[t3][1] = "return"

\* C3: at every moment of a dispatch run the number of probes in flight is at
\* most the pool size MAX_NUMBER_OF_SERVERS_FOR_CONCURRENT_REQUEST, whatever
\* the number of targets, and at most the number of targets not yet finished.
C3_InFlightBounded ==
  /\ Cardinality(InFlight) <= MAX_NUMBER_OF_SERVERS_FOR_CONCURRENT_REQUEST
  /\ Cardinality(InFlight) <= unfinished
  /\ Cardinality({w \in Workers : wstate[w] # "none"}) <= MAX_NUMBER_OF_SERVERS_FOR_CONCURRENT_REQUEST

\* The pool of a limited command is saturated while a target still waits on
\* the queue.
C3_Witness ==
  /\ cmd \in LimitedCommands
  /\ Cardinality(InFlight) = MAX_NUMBER_OF_SERVERS_FOR_CONCURRENT_REQUEST
  /\ queue # <<>>

C4_AllEndedAfterGather ==
  pc \in {"render", "done", "aborted"} => AllWorkersEnded

C4_NoWriteAfterGather ==
  pc \in {"render", "done", "aborted"} => results' = results

\* C4: when a dispatch run completes normally, every worker task created for
\* it has ended (cancelled and awaited) before the run renders or returns, no
\* cancellation interrupts a probe, and the result map is not written any more.
C4_WorkersGoneBeforeRender ==
  /\ [](C4_AllEndedAfterGather)
  /\ [](pc = "gather" => InFlight = {})
  /\ [][C4_NoWriteAfterGather]_vars

\* A run over several targets is rendering, its whole pool was created and has ended.
C4_Witness ==
  /\ pc = "render"
  /\ Len(host_list) >= 2
  /\ DOMAIN results = Targets
  /\ \A w \in CreatedTasks : wstate[w] = "ended"

\* C5: if the command is cancelled while it waits on the queue, its worker
\* tasks are cancelled and awaited before the call ends: none stays alive.
C5_NoWorkerOutlivesCancelledCall ==
  pc = "cancelled" => AllWorkersEnded

C6_EmptyRunState ==
  Len(host_list) = 0 =>
    /\ InFlight = {}
    /\ \A t \in Servers : takes[t] = 0
    /\ DOMAIN results = {}
    /\ pc # "rejected"
    /\ pc = "join" => unfinished = 0
    /\ pc \in {"render", "done", "aborted"} => \A w \in CreatedTasks : wstate[w] = "ended"
    /\ pc = "done" => report = <<>>

\* C6: a run over an empty target set issues no probe, does not wait in
\* queue.join(), yields an empty result map, has created, cancelled and
\* awaited its whole pool of workers when it renders, and terminates (unless
\* the command is cancelled from outside first).
C6_EmptyRun ==
  /\ [](C6_EmptyRunState)
  /\ (Len(host_list) = 0 /\ pc = "check") ~> (pc \in {"done", "cancelled"})

\* The run over no target is done.
C6_Witness ==
  /\ Len(host_list) = 0
  /\ pc = "done"
  /\ cmd = "delegation"

\* C7: every command that fans out to the servers of a room (find_event
\* included) rejects more than MAX_NUMBER_OF_SERVERS_TO_ATTEMPT targets before
\* any worker is created or probe issued, and accepts exactly that many.
C7_CeilingBeforeDispatch ==
  /\ Len(host_list) > MAX_NUMBER_OF_SERVERS_TO_ATTEMPT =>
       /\ \A w \in Workers : wstate[w] = "none"
       /\ \A t \in Servers : takes[t] = 0
  /\ (Len(host_list) = MAX_NUMBER_OF_SERVERS_TO_ATTEMPT /\ ~display_raw) => pc # "rejected"

\* C8: the find_event batch always completes: once the command waits on the
\* host queue it eventually leaves the wait and ends (or is cancelled from
\* outside), even if the fetch for a host raised.
C8_FindEventCompletes ==
  (cmd = "find_event" /\ pc = "join") ~> (pc \in {"done", "cancelled"})

C9_TakenAndWrittenOnce ==
  /\ \A t \in Servers :
       /\ takes[t] <= 1
       /\ writes[t] <= 1
       /\ t \in DOMAIN results <=> writes[t] = 1
       /\ takes[t] = 1 => t \in Targets
  /\ \A w1, w2 \in InFlight : w1 # w2 => witem[w1] # witem[w2]
  /\ (cmd \in LimitedCommands /\ Returned) => \A t \in Targets : takes[t] = 1 /\ writes[t] = 1

C9_WrittenByTaker ==
  \A t \in Servers :
    (writes'[t] # writes[t] \/ (t \in DOMAIN results' /\ t \notin DOMAIN results)) =>
      \E w \in InFlight : witem[w] = t /\ wstate'[w] # "probe"

\* C9: each target is taken from the queue by exactly one worker and its key
\* is written exactly once, by the worker that took it: no two workers hold
\* the same target and no entry is overwritten.
C9_OneWorkerPerTarget == [](C9_TakenAndWrittenOnce) /\ [][C9_WrittenByTaker]_vars

\* Two workers hold two different targets at once while a third target is
\* already written.
C9_Witness ==
  /\ Cardinality(InFlight) = 2
  /\ \E t \in Targets : writes[t] = 1
  /\ Len(host_list) = 3


(***************************************************************************)
(* Properties of get_hosts_in_room_ordered.                                *)
(***************************************************************************)

\* The depths of the join membership events of host h in the state.
JoinDepths(h) ==
  {state_events[i].depth : i \in
     {k \in 1..Len(state_events) :
        /\ state_events[k].type = "m.room.member"
        /\ state_events[k].membership = "join"
        /\ state_events[k].state_key[2] = h}}

\* C10: get_hosts_in_room_ordered returns each host at most once, every host
\* returned has a join event, hosts appear in ascending order of the minimum
\* depth over their join events, and a second call on the same membership
\* list returns the same list.
C10_HostsOnceByEarliestJoin ==
  calls >= 1 =>
    /\ \A i, j \in 1..Len(hosts_ordered) : i # j => hosts_ordered[i] # hosts_ordered[j]
    /\ \A i \in 1..Len(hosts_ordered) : JoinDepths(hosts_ordered[i]) # {}
    /\ \A i, j \in 1..Len(hosts_ordered) :
         i < j => Min(JoinDepths(hosts_ordered[i])) <= Min(JoinDepths(hosts_ordered[j]))
    /\ calls = 2 => hosts_ordered = previous_hosts

\* The state lists a join of a.org at depth 9, then a join of b.org at depth 7,
\* then a join of a.org at depth 5: both calls return a.org once, before b.org.
C10_Witness ==
  /\ calls = 2
  /\ Len(state_events) = 3
  /\ state_events[1].depth = 9 /\ state_events[1].membership = "join"
  /\ state_events[2].depth = 7 /\ state_events[2].membership = "join"
  /\ state_events[3].depth = 5 /\ state_events[3].membership = "join"
  /\ JoinDepths("a.org") = {5, 9}
  /\ JoinDepths("b.org") = {7}
  /\ hosts_ordered = <<"a.org", "b.org">>

\* The position of a host name in lexical order.
HostNameRank(h) == IF h = "a.org" THEN 1 ELSE 2

\* C11: two hosts whose earliest join depths are equal are returned in the
\* lexical order of their names, and the returned list is the same when the
\* membership events are handed over in another order.
C11_TiesByHostName ==
  calls >= 1 =>
    /\ \A i, j \in 1..Len(hosts_ordered) :
         (i < j /\ Min(JoinDepths(hosts_ordered[i])) = Min(JoinDepths(hosts_ordered[j])))
           => HostNameRank(hosts_ordered[i]) < HostNameRank(hosts_ordered[j])
    /\ get_hosts_in_room_ordered(Reverse(state_events)) = hosts_ordered

(***************************************************************************)
(* Properties of the room walk.                                            *)
(***************************************************************************)

\* The loop of a phase has been left.
PhaseOver(d) ==
  IF d = "f"
    THEN wpc \in {"loop", "break", "gather", "done"} /\ (phase = "b" \/ wpc \in {"break", "gather"})
    ELSE phase = "b" /\ wpc \in {"break", "gather", "done"}

\* Fetcher tasks that exist and have not ended.
LiveFetchers == {d \in Directions : fstate[d] \in {"get", "sleep", "fetch"}}

\* C12: when the first page of a phase comes without a continuation token,
\* that phase never fetches a second page, and it is over with exactly one
\* page fetched and one page counted; a walk of two such phases reports Done
\* with one page fetched in discovery and one in backfill.
C12_OnePagePerPhase ==
  /\ \A d \in Directions :
       pages[d] = 1 =>
         /\ fetched[d] <= 1
         /\ PhaseOver(d) => (fetched[d] = 1 /\ iterations[d] = 1 /\ handled[d] = <<1>>)
  /\ wpc = "done" => (PhaseOver("f") /\ PhaseOver("b"))

\* A walk over a room of one page in each direction has reported Done.
C12_Witness ==
  /\ wpc = "done"
  /\ pages = [d \in Directions |-> 1]
  /\ fetched = [d \in Directions |-> 1]
  /\ iterations = [d \in Directions |-> 1]

\* C13: once a user has signalled STOP during discovery, the walk does not
\* go on to backfill: no step taken while STOP is the last signal and
\* discovery runs starts the backfill phase, creates the backfill fetcher or
\* fetches a backward page.
C13_StopInDiscoveryEndsWalk ==
  [][(signal = "STOP" /\ phase = "f") =>
       (phase' = "f" /\ fstate'["b"] = "none" /\ fetched'["b"] = 0)]_vars

\* C14: while PAUSE is the last signal a user has sent, no step takes an item
\* off a fetch queue and no step issues a page fetch; the items on the queues
\* stay.
C14_PauseHoldsFetcher ==
  [][signal = "PAUSE" =>
       \A d \in Directions :
         /\ Len(fetch_queue'[d]) >= Len(fetch_queue[d])
         /\ fstate'[d] = "fetch" => fstate[d] = "fetch"
         /\ fetched'[d] = fetched[d]]_vars

\* The page fetched last in direction d carried a continuation token, or no
\* page has been fetched yet.
MorePagesToCome(d) == fetched[d] < pages[d]

\* C15: a phase is left only after the page without a continuation token has
\* been fetched and processed: while the page fetched last in discovery
\* carried a token the discovery loop has not been left and no backfill
\* fetcher exists, and Done is reported only after backfill has ended the
\* same way.
C15_PhaseEndsOnLastPage ==
  /\ \A d \in Directions :
       /\ MorePagesToCome(d) => ~PhaseOver(d)
       /\ PhaseOver(d) =>
            /\ handled[d] # <<>>
            /\ handled[d][Len(handled[d])] = pages[d]
            /\ fetch_queue[d] = <<>>
  /\ MorePagesToCome("f") => (fstate["b"] = "none" /\ fetched["b"] = 0)
  /\ fstate["b"] # "none" => PhaseOver("f")
  /\ wpc = "done" => PhaseOver("b")

\* A walk over two pages in each direction has reported Done, having
\* processed both pages of each phase.
C15_Witness ==
  /\ wpc = "done"
  /\ pages = [d \in Directions |-> 2]
  /\ handled = [d \in Directions |-> <<1, 2>>]

\* A step in which a page fetch of direction d returns.
PageReturned(d) == fetched'[d] = fetched[d] + 1

\* The entry a returning fetch has appended to response_list.
LastResponse == response_list'[Len(response_list')]

\* C16: a page fetch that returns a continuation token appends exactly one
\* item to its queue, made of half the measured latency and that token; a
\* page without a token leaves the queue as it is.  The fetcher is asleep
\* before a fetch only with a backoff above one second, and a dequeued
\* backoff above one second always sends it to sleep.
C16_Enqueue ==
  \A d \in Directions :
    PageReturned(d) =>
      /\ Len(response_list') = Len(response_list) + 1
      /\ \E chunk \in SUBSET EventIds :
           LastResponse[2] = get_messages(d, next_token[d], chunk)
      /\ LastResponse[1] \in Latencies
      /\ IF LastResponse[2].end # NoToken
           THEN /\ Len(fetch_queue'[d]) = Len(fetch_queue[d]) + 1
                /\ SubSeq(fetch_queue'[d], 1, Len(fetch_queue[d])) = fetch_queue[d]
                /\ fetch_queue'[d][Len(fetch_queue'[d])][2] = LastResponse[2].end
                /\ 2 * fetch_queue'[d][Len(fetch_queue'[d])][1] = LastResponse[1]
           ELSE fetch_queue'[d] = fetch_queue[d]

C16_Sleep ==
  \A d \in Directions :
    /\ fstate'[d] = "sleep" => back_off_time'[d] > BackoffThreshold
    /\ (fstate[d] = "get" /\ fstate'[d] = "fetch") => back_off_time'[d] <= BackoffThreshold

C16_TokenAndHalfLatencyEnqueued == [][C16_Enqueue /\ C16_Sleep]_vars

\* A fetch that took three seconds has put its token on the queue with a
\* backoff of one and a half seconds, and the fetcher sleeps on it.
C16_Witness ==
  /\ fstate["f"] = "sleep"
  /\ back_off_time["f"] = 15
  /\ next_token["f"] = 1
  /\ fetched["f"] = 1

\* A step in which the fetch of direction d ends without a page and without
\* the task being cancelled.
FetchFailed(d) ==
  /\ fstate[d] = "fetch"
  /\ fetched'[d] = fetched[d]
  /\ fstate'[d] # "ended"
  /\ (fstate'[d] # "fetch" \/ retry_token'[d] # retry_token[d])

\* C17: a failed page fetch keeps the token and the backoff for the next
\* attempt and sets the fetcher to retry; it takes nothing off the queue, puts
\* nothing on it, appends no page to response_list and does not mark the
\* queue item done.  As long as the fetcher retries, its token and backoff
\* stay and it takes no item off the queue.
C17_FailedStep ==
  \A d \in Directions :
    FetchFailed(d) =>
      /\ retry_token'[d]
      /\ fstate'[d] \in {"sleep", "fetch"}
      /\ next_token'[d] = next_token[d]
      /\ back_off_time'[d] = back_off_time[d]
      /\ fetch_queue'[d] = fetch_queue[d]
      /\ unfinished_tasks'[d] = unfinished_tasks[d]
      /\ response_list' = response_list

C17_WhileRetrying ==
  \A d \in Directions :
    retry_token[d] =>
      /\ next_token'[d] = next_token[d]
      /\ back_off_time'[d] = back_off_time[d]
      /\ Len(fetch_queue'[d]) >= Len(fetch_queue[d])

C17_FailedFetchRetriesSameItem == [][C17_FailedStep /\ C17_WhileRetrying]_vars

\* The fetch of the second forward page, taken off the queue with a backoff of
\* one and a half seconds, has failed: the fetcher sleeps again on the same
\* token, the queue is empty and its item is still unfinished.
C17_Witness ==
  /\ retry_token["f"]
  /\ fstate["f"] = "sleep"
  /\ next_token["f"] = 1
  /\ back_off_time["f"] = 15
  /\ fetched["f"] = 1
  /\ fetch_queue["f"] = <<>>
  /\ unfinished_tasks["f"] = 1

\* C18: the retrying of a token is bounded: a fetcher that has to retry
\* comes, after finitely many attempts, to a point where it retries no more,
\* because a page was returned, because it gave the token up, or because the
\* task has ended.
C18_RetryIsBounded ==
  \A d \in Directions :
    retry_token[d] ~> (~retry_token[d] \/ fstate[d] = "ended")

\* C19: at most one fetcher task is alive at a time, the discovery fetcher
\* has ended before the backfill fetcher exists, so at most one page fetch is
\* in flight; and a fetcher comes to issue a fetch only from the queue, from
\* its sleep or from the failure of its previous fetch.
C19_OneLiveFetcher ==
  /\ Cardinality(LiveFetchers) <= 1
  /\ Cardinality({d \in Directions : fstate[d] = "fetch"}) <= 1
  /\ fstate["b"] # "none" => fstate["f"] = "ended"
  /\ \A d \in Directions : fcancel[d] => (d = phase /\ wpc = "gather")

C19_FetchesInTurn ==
  \A d \in Directions :
    PageReturned(d) => (fstate[d] = "fetch" /\ fstate'[d] = "get")

C19_SingleFetchInFlight == []C19_OneLiveFetcher /\ [][C19_FetchesInTurn]_vars

\* The backfill fetcher has a fetch in flight; the discovery fetcher has ended.
C19_Witness ==
  /\ fstate["b"] = "fetch"
  /\ fstate["f"] = "ended"
  /\ fetched["f"] = 2
  /\ fetched["b"] = 1

\* The pages that wait in response_list for the next snapshot.
Pending == [i \in 1..Len(response_list) |-> PageOf(response_list[i])]

\* The first n pages of a direction, in order.
FirstPages(n) == [i \in 1..n |-> i]

\* C20: the snapshot loop counts returned pages only and gets every returned
\* page exactly once: the pages processed so far are the first iterations
\* pages, each once and in order, the pages processed and the pages waiting
\* in response_list are together the pages fetched so far in the running
\* phase, and when a phase is over its counter equals the number of pages
\* fetched in it.
C20_EveryPageOnce ==
  /\ \A d \in Directions :
       /\ handled[d] = FirstPages(iterations[d])
       /\ iterations[d] <= fetched[d]
       /\ PhaseOver(d) => iterations[d] = fetched[d]
  /\ handled[phase] \o Pending = FirstPages(fetched[phase])

\* The first forward page has been processed, and the second one, fetched
\* after the list was swapped, waits in the new list.
C20_Witness ==
  /\ phase = "f"
  /\ wpc = "loop"
  /\ handled["f"] = <<1>>
  /\ iterations["f"] = 1
  /\ Len(response_list) = 1
  /\ PageOf(response_list[1]) = 2

\* C21: when the backfill phase is over, the reported count of new events
\* is the number of distinct event ids of the backfill pages that discovery
\* had not found, however the pages were spread over the snapshots.
C21_NewEventsCountedOnce ==
  PhaseOver("b") =>
    backwalk_count_of_new_event_ids =
      Cardinality(returned_ids["b"] \ discovery_collection_of_event_ids)

\* C22: when the discovery phase is over, the discovered set is the union of
\* the event ids of the pages fetched in discovery, and the reported count is
\* the size of that set.
C22_DiscoverySetIsUnion ==
  /\ discovery_collection_of_event_ids \subseteq returned_ids["f"]
  /\ discovery_total_events_received = Cardinality(discovery_collection_of_event_ids)
  /\ PhaseOver("f") => discovery_collection_of_event_ids = returned_ids["f"]

\* Discovery is over after two pages that both held $e1 and of which one held
\* $e2: two events are reported.
C22_Witness ==
  /\ PhaseOver("f")
  /\ fetched["f"] = 2
  /\ handled["f"] = <<1, 2>>
  /\ discovery_collection_of_event_ids = {"$e1", "$e2"}
  /\ discovery_total_events_received = 2

\* The sessions whose status a step changes.
ChangedSessions ==
  {e \in DOMAIN task_control \cap DOMAIN task_control' : task_control'[e] # task_control[e]}

\* C23: whatever reaction react_control_handler is given, the key set of
\* task_control stays as it is, so a reaction on an event that is no session
\* adds no entry, and no entry other than the one of the reacted-to event
\* changes.
C23_HandlerFrame ==
  \A sender \in Senders, event_id \in SessionIds, key \in ReactionKeys :
    LET after == TaskControlAfter(sender, event_id, key)
    IN  /\ DOMAIN after = DOMAIN task_control
        /\ \A e \in DOMAIN task_control : e # event_id => after[e] = task_control[e]

C23_Step ==
  /\ DOMAIN task_control' = DOMAIN task_control
  /\ Cardinality(ChangedSessions) <= 1
  /\ \A e \in ChangedSessions : task_control'[e] = signal'

C23_OnlyTheReactedSession == []C23_HandlerFrame /\ [][C23_Step]_vars

\* A user has sent STOP on $m1, whose entry was not STOP before: $m1 is
\* stopped, $m2 is still paused, and $m3 is still no session.
C23_Witness ==
  /\ signal = "STOP"
  /\ DOMAIN task_control = {"$m1", "$m2"}
  /\ task_control["$m1"] = "STOP"
  /\ task_control["$m2"] = "PAUSE"

(***************************************************************************)
(* Properties of the reports.                                              *)
(***************************************************************************)

\* C24: the version, delegation and server-key reports have one row per
\* target, in ascending order of server name, and the state listing has one
\* row per event, in ascending order of depth.
C24_RowsSorted ==
  /\ (cmd \in LimitedCommands /\ pc = "done") =>
       /\ Len(report) = Len(host_list)
       /\ {report[i].server : i \in 1..Len(report)} = Targets
       /\ \A i, j \in 1..Len(report) : i < j => report[i].server < report[j].server
  /\ state_listing # <<>> =>
       /\ Len(state_listing) = Len(state_events)
       /\ {state_listing[i].event : i \in 1..Len(state_listing)}
            = {<<state_events[k].type, state_events[k].state_key>> :
                 k \in 1..Len(state_events)}
       /\ \A i, j \in 1..Len(state_listing) :
            i < j => state_listing[i].depth <= state_listing[j].depth

\* A report of two servers is out, first the lower name, and a state handed
\* over with its deeper event first is listed with that event last.
C24_Witness ==
  /\ cmd \in LimitedCommands
  /\ pc = "done"
  /\ Len(report) = 2
  /\ report[1].server < report[2].server
  /\ Len(state_listing) = 2
  /\ state_events[1].depth > state_events[2].depth
  /\ state_listing[1].depth < state_listing[2].depth

\* The rows the report holds for target t.
RowsOf(t) == {i \in 1..Len(report) : report[i].server = t}

MemberEventsOf(h, membership) ==
  {i \in DOMAIN state_events :
     /\ state_events[i].type = "m.room.member"
     /\ state_events[i].membership = membership
     /\ state_events[i].state_key[2] = h}

\* C30: the hosts that get_hosts_in_room_ordered returns are exactly the
\* host parts of the state_key of the m.room.member events with membership
\* join: a host with a join event is returned, a host with only events of
\* another membership or another type is not.
C30_HostsAreTheJoinedHosts ==
  calls > 0 =>
    {hosts_ordered[i] : i \in DOMAIN hosts_ordered} =
      {h \in Hosts : MemberEventsOf(h, "join") # {}}

\* One host has a joined member, the other only a member who left, next to
\* an event of another type.
C30_Witness ==
  /\ calls > 0
  /\ \E h, g \in Hosts :
       /\ MemberEventsOf(h, "join") # {}
       /\ MemberEventsOf(g, "join") = {} /\ MemberEventsOf(g, "leave") # {}
       /\ hosts_ordered = <<h>>
  /\ \E i \in DOMAIN state_events : state_events[i].type = "m.room.name"

(***************************************************************************)
(* Properties of the resolution of a server name.                          *)
(***************************************************************************)

Resolved == rstate \in {"resolved", "reported"}

\* The outcome the trace records for a step.
StepOutcome(s) == LET i == CHOOSE i \in DOMAIN trace : trace[i][1] = s IN trace[i][2]

\* Every step identity is in the trace, once.
FullTrace ==
  /\ Len(trace) = Len(Steps)
  /\ \A i \in DOMAIN Steps : \E j \in DOMAIN trace : trace[j][1] = Steps[i]

LiteralIpName == ~server_name.scheme /\ IsLiteralIp(server_name.host)

\* C26: the resolution of a name whose host is a literal IP ends at the
\* first step: the endpoint is the address itself via literal-ip, with the
\* explicit port or else 8448, the first step of the trace is the literal-ip
\* step, and every other step is in the trace as skipped: no well-known, SRV
\* or DNS step is attempted.
C26_LiteralIpEndsResolution ==
  (Resolved /\ LiteralIpName) =>
    /\ endpoint.via = "literal-ip"
    /\ endpoint.host = server_name.host
    /\ endpoint.port = (IF server_name.port = NoPort THEN 8448 ELSE server_name.port)
    /\ FullTrace
    /\ trace[1] = <<"literal-ip", "ok">>
    /\ \A i \in 2..Len(trace) : trace[i][2] = "skipped"

\* A literal IP without port, whose well-known request and SRV queries would
\* all have answered, is resolved to port 8448.
C26_Witness ==
  /\ Resolved /\ LiteralIpName
  /\ server_name.port = NoPort
  /\ well_known.status = "ok"
  /\ \A k \in SrvKinds : srv[k] = "ok"
  /\ endpoint = Endpoint(server_name.host, DefaultPort, server_name.host, "literal-ip")

PlainHostName ==
  /\ ~server_name.scheme
  /\ server_name.host \in HostNames
  /\ server_name.port = NoPort

\* C27: for a hostname without port whose well-known request fails and
\* which has no SRV record of either kind, the resolution does not abort: the
\* trace starts with the failed well-known step, then the srv-modern and the
\* srv-deprecated step, both failed, then the hostname-default-port step, and
\* the endpoint is the hostname itself with port 8448 via
\* hostname-default-port.
C27_WellKnownFailureFallsThrough ==
  (Resolved /\ PlainHostName /\ well_known.status \in WellKnownFailures
     /\ \A k \in SrvKinds : srv[k] = "none") =>
    /\ endpoint = Endpoint(server_name.host, 8448, server_name.host,
                           "hostname-default-port")
    /\ FullTrace
    /\ SubSeq(trace, 1, 4) = <<(<<"well-known", "failed">>),
                               (<<"srv-modern", "failed">>),
                               (<<"srv-deprecated", "failed">>),
                               (<<"hostname-default-port", "ok">>)>>

\* example.org answers 404 for its well-known document and has no SRV record.
C27_Witness ==
  /\ Resolved /\ PlainHostName
  /\ server_name.host = "example.org"
  /\ well_known.status = "404"
  /\ \A k \in SrvKinds : srv[k] = "none"
  /\ endpoint.via = "hostname-default-port"

DelegatedWithPort ==
  /\ PlainHostName
  /\ well_known.status = "ok"
  /\ well_known.port # NoPort

\* C28: example.org, whose well-known document names deleg.example.org:1234,
\* resolves to (deleg.example.org, 1234, deleg.example.org) via dns-with-port
\* with the well-known and the dns-with-port step ok and both SRV steps
\* skipped; and whenever the delegated name has an explicit port, no SRV step
\* is attempted.
C28_DelegatedPortSkipsSrv ==
  /\ (Resolved /\ PlainHostName /\ server_name.host = "example.org"
        /\ well_known = [status |-> "ok", host |-> "deleg.example.org", port |-> 1234]) =>
       /\ endpoint = Endpoint("deleg.example.org", 1234, "deleg.example.org",
                              "dns-with-port")
       /\ StepOutcome("well-known") = "ok"
       /\ StepOutcome("dns-with-port") = "ok"
  /\ (Resolved /\ DelegatedWithPort) =>
       /\ FullTrace
       /\ \A k \in SrvKinds : StepOutcome(k) = "skipped"
       /\ endpoint.via \notin SrvKinds

\* The scenario, with SRV records of both kinds for the looked-up name.
C28_Witness ==
  /\ Resolved /\ PlainHostName /\ server_name.host = "example.org"
  /\ well_known = [status |-> "ok", host |-> "deleg.example.org", port |-> ExplicitPort]
  /\ \A k \in SrvKinds : srv[k] = "ok"
  /\ endpoint.via = "dns-with-port"

RECURSIVE ChainToken(_, _)
ChainToken(d, n) ==
  IF n = 0 THEN NoToken ELSE get_messages(d, ChainToken(d, n - 1), {}).end

\* A fetcher that holds a token for a fetch it is about to issue or has issued.
HoldsToken(d) == fstate[d] \in {"sleep", "fetch"}

C31_Chain ==
  \A d \in Directions :
    /\ HoldsToken(d) => next_token[d] = ChainToken(d, fetched[d])
    /\ \A i \in DOMAIN fetch_queue[d] : fetch_queue[d][i][2] = ChainToken(d, fetched[d])
    /\ (HoldsToken(d) /\ fetched[d] > 0) => next_token[d] # NoToken

C31_Step ==
  \A d \in Directions :
    PageReturned(d) =>
      /\ LastResponse[2].start = ChainToken(d, fetched[d])
      /\ LastResponse[2].end = ChainToken(d, fetched'[d])

\* C31: in each phase the first fetch uses no token and every later fetch
\* uses the token returned by the last successful page of the same phase:
\* the token a fetcher holds, and the token of every queued item, is the one
\* of the chain after the pages fetched so far, and a returned page starts at
\* that token and ends at the next one of the chain.
C31_TokensFormAChain == []C31_Chain /\ [][C31_Step]_vars

\* The backfill fetcher asks for its second page with the token of its first,
\* after a discovery of two pages.
C31_Witness ==
  /\ fstate["b"] = "fetch"
  /\ fetched["f"] = 2
  /\ fetched["b"] = 1
  /\ next_token["b"] = ChainToken("b", 1)
  /\ next_token["b"] # NoToken

\* C32: with a server that answers every page fetch after finitely many
\* attempts, and rooms of finitely many pages in each direction, a walk that
\* has entered its discovery loop comes, under fair scheduling, to report
\* Done with both phases over, every page of both directions fetched and
\* both fetcher tasks ended.
C32_WalkTerminates ==
  (wpc = "loop") ~>
    (/\ wpc = "done"
     /\ phase = "b"
     /\ \A d \in Directions : fstate[d] = "ended" /\ fetched[d] = pages[d])

\* A walk over two pages in each direction has reported Done.
C32_Witness ==
  /\ wpc = "done"
  /\ \A d \in Directions : pages[d] = 2 /\ fetched[d] = 2 /\ fstate[d] = "ended"

(***************************************************************************)
(* Properties of the preamble of the room walk.                            *)
(***************************************************************************)

\* The command has ended at a check that failed.
EndedAtCheck == wpc \in WalkChecks \ {"ok"}

\* No fetcher task was created and no page was asked for.
NothingFetched ==
  /\ \A d \in Directions :
       /\ fstate[d] = "none"
       /\ fetch_queue[d] = <<>>
       /\ unfinished_tasks[d] = 0
       /\ fetched[d] = 0
       /\ ~retry_token[d]
  /\ response_list = <<>>

\* C34: a room walk that ends at one of its checks (sender on another
\* server, no signing key, room not resolved, per_iteration no integer,
\* timestamp lookup in error) has created no fetcher task, primed no queue and
\* fetched no page, and no step follows.
C34_Ended == EndedAtCheck => NothingFetched

C34_Final == EndedAtCheck => UNCHANGED wvars

C34_FailedCheckFetchesNothing == []C34_Ended /\ [][C34_Final]_vars

\* The walk has ended at its last check, the timestamp lookup.
C34_Witness == wpc = "timestamp_error" /\ NothingFetched

(***************************************************************************)
(* Properties of the preamble of the commands.                             *)
(***************************************************************************)

\* C33: when a room id or alias was given and its resolution gives no room
\* id, the command has returned, without a request for the members of the
\* room and without targets for workers.
C33_UnresolvedRoomReturns ==
  room_to_check = None =>
    /\ ppc = "returned"
    /\ joined_members_requests = 0
    /\ list_of_servers_to_check = {}

(***************************************************************************)
(* Properties of the reaction handler.                                     *)
(***************************************************************************)

\* A reaction that the handler is to obey: not from the bot itself, on an
\* event that is a session, with one of the three command keys.
Accepted(sender, event_id, key) ==
  /\ sender # "bot"
  /\ event_id \in DOMAIN task_control
  /\ key \in ReactionCommandStatus

C35_Handler ==
  \A sender \in Senders, event_id \in SessionIds, key \in ReactionKeys :
    TaskControlAfter(sender, event_id, key) =
      IF Accepted(sender, event_id, key)
        THEN [task_control EXCEPT ![event_id] = key]
        ELSE task_control

C35_Last ==
  /\ DOMAIN last_accepted \subseteq DOMAIN task_control
  /\ \A e \in DOMAIN last_accepted : task_control[e] = last_accepted[e]

C35_Step ==
  \A e \in ChangedSessions : e \in DOMAIN last_accepted' /\ last_accepted'[e] = task_control'[e]

\* C35: react_control_handler sets the status of a session to the key of
\* the reaction exactly when the reaction is not from the bot, is on an event
\* that is a session and has one of the three command keys, and leaves
\* task_control as it is otherwise; after any sequence of reactions the status
\* of a session that had such a reaction is the key of the last one, and a
\* status changes only in a step that has such a reaction on that session.
C35_StatusFollowsLastAccepted == [](C35_Handler /\ C35_Last) /\ [][C35_Step]_vars

\* The last reaction a user sent on the session $m1 was START, and START is
\* its status; $m2 has had no such reaction and is STOP as at the beginning.
C35_Witness ==
  /\ DOMAIN task_control = {"$m1", "$m2"}
  /\ task_control["$m1"] = "START"
  /\ task_control["$m2"] = "STOP"
  /\ DOMAIN last_accepted = {"$m1"}
  /\ last_accepted["$m1"] = "START"
  /\ signal = "START"

(***************************************************************************)
(* Further properties of the room walk.                                    *)
(***************************************************************************)

C36_Step ==
  PhaseOver("f") =>
    discovery_collection_of_event_ids' = discovery_collection_of_event_ids

\* C36: once the discovery loop has ended, no step changes the set of
\* discovered event ids: through the whole backfill phase it is the set that
\* discovery ended with, and every backfill page is compared against it.
C36_DiscoverySetIsFrozen == [][C36_Step]_vars

\* The backfill loop has handled a page with an event id that discovery did
\* not have, and the discovery set is as discovery left it.
C36_Witness ==
  /\ phase = "b"
  /\ discovery_collection_of_event_ids = {"$e1"}
  /\ returned_ids["f"] = {"$e1"}
  /\ backwalk_collection_of_event_ids = {"$e2"}
  /\ backwalk_count_of_new_event_ids = 1

\* A page fetch of the direction is in flight, or about to be issued after
\* the backoff.
FetchInFlight(d) == fstate[d] \in {"sleep", "fetch"}

\* C37: in every reachable state the fetch queue of each phase holds at
\* most one (backoff, token) item, and none while a page fetch of that phase
\* is in flight.
C37_QueueHoldsAtMostOne ==
  \A d \in Directions :
    /\ Len(fetch_queue[d]) <= 1
    /\ FetchInFlight(d) => fetch_queue[d] = <<>>

\* The backfill fetcher has put the token of its first page on the queue
\* and has not taken it yet.
C37_Witness ==
  /\ fstate["b"] = "get"
  /\ fetched["b"] = 1
  /\ Len(fetch_queue["b"]) = 1
  /\ fetch_queue["b"][1][2] # NoToken

(***************************************************************************)
(* Properties of the end of a dispatch run.                                *)
(***************************************************************************)

\* Every target of the run has its entry in the map.
AllResultsIn == \A i \in DOMAIN host_list : host_list[i] \in DOMAIN results

\* A step in which the command calls task.cancel() on a worker.
CancelStep == \E w \in Workers : wcancel'[w] /\ ~wcancel[w]

C38_Cancel ==
  CancelStep =>
    /\ unfinished = 0
    /\ queue = <<>>
    /\ \A w \in Workers : wstate[w] # "probe"
    /\ AllResultsIn

C38_State ==
  /\ \A w \in Workers : wcancel[w] => wstate[w] # "probe"
  /\ pc \in {"render", "done", "aborted"} => AllResultsIn

\* C38: in a dispatch run the command cancels its workers only when every
\* target put on the queue has been taken and marked done: no worker is in a
\* probe when it is cancelled or while its cancellation is pending, and the
\* report is rendered only when every target has its entry in the map.
C38_CancelAfterAllDone == []C38_State /\ [][C38_Cancel]_vars

\* Two targets have been probed, and the command has cancelled workers that
\* wait on the empty queue.
C38_Witness ==
  /\ pc = "gather"
  /\ cmd \in LimitedCommands
  /\ Len(host_list) >= 2
  /\ AllResultsIn
  /\ \E w \in Workers : wcancel[w] /\ wstate[w] = "get"

(***************************************************************************)
(* Properties of combine_lines_to_fit_event.                               *)
(***************************************************************************)

\* The strings of a list, one after the other.
RECURSIVE Concatenated(_)
Concatenated(texts) ==
  IF texts = <<>> THEN <<>> ELSE Head(texts) \o Concatenated(Tail(texts))

StartsWithHeader(chunk) ==
  /\ Len(chunk) >= Len(header_line)
  /\ SubSeq(chunk, 1, Len(header_line)) = header_line

WithoutHeader(chunk) == SubSeq(chunk, Len(header_line) + 1, Len(chunk))

\* The header fits an event together with any single line.
EveryLineFits ==
  \A i \in DOMAIN list_of_all_lines :
    Len(header_line) + Len(list_of_all_lines[i]) <= MAX_EVENT_SIZE_FOR_SENDING

\* C39: combine_lines_to_fit_event returns at least one chunk, every chunk
\* starts with the header, the chunks without their header give, one after
\* the other, the lines one after the other, and when the header fits an
\* event together with any single line, no chunk is larger than an event.
C39_ChunksKeepTheLines ==
  cpc = "returned" =>
    /\ Len(list_of_combined_lines) >= 1
    /\ \A i \in DOMAIN list_of_combined_lines : StartsWithHeader(list_of_combined_lines[i])
    /\ Concatenated([i \in DOMAIN list_of_combined_lines |->
                       WithoutHeader(list_of_combined_lines[i])])
         = Concatenated(list_of_all_lines)
    /\ EveryLineFits =>
         \A i \in DOMAIN list_of_combined_lines :
           Len(list_of_combined_lines[i]) <= MAX_EVENT_SIZE_FOR_SENDING

\* Three lines that each fill an event together with the header: three
\* chunks.
C39_Witness ==
  /\ cpc = "returned"
  /\ header_line # <<>>
  /\ Len(list_of_all_lines) >= 2
  /\ \A i \in DOMAIN list_of_all_lines : list_of_all_lines[i] # <<>>
  /\ list_of_all_lines[1] # list_of_all_lines[2]
  /\ EveryLineFits
  /\ Len(list_of_combined_lines) = Len(list_of_all_lines)

====
